---------------------------- MODULE Spec2Model ----------------------------
(***************************************************************************)
(* Verification model of the terminal text editor core (nonomal/edit).     *)
(*                                                                         *)
(* Part A: the gap-buffer text store of src/src/buffer.c with its undo     *)
(* log and its cursor arithmetic.  The model follows the release build     *)
(* (NDEBUG): assert() is compiled out and the 0xCD/0xDD debug fills of the *)
(* gap are absent.                                                         *)
(*                                                                         *)
(* usize values are kept as integers; a value that wrapped below zero is   *)
(* kept as the negative integer v standing for 2^64 + v, and the unsigned  *)
(* comparisons ULt/UMin/UMax order such values above every non-negative    *)
(* one, as the 64-bit machine does.                                        *)
(***************************************************************************)
EXTENDS Integers, Sequences, FiniteSets, TLC

\* ------------------------------------------------------------------ bounds
\* Longest document (in bytes) the editing actions may build.
MaxLen == 6
\* Largest number of entries pushed onto the undo log under SpecUndo, and
\* largest number of writes and deletes under SpecEdit.
MaxChanges == 3
MaxEdits == 2
\* Chunk sizes of the model, standing for TEXT_BUFFER_ALLOC_CHUNK_BYTES
\* (0x10000) and TEXT_BUFFER_GAP_CHUNK_BYTES (0x1000); scaled down so that
\* the gap is used up and grows again within MaxLen bytes.
AllocChunk == 4
GapChunk == 2
\* Largest column/line coordinate handed to the cursor operations.
MaxCoord == 1

\* Widest text area handed to text_buffer_reflow, and the number of edits
\* in the sessions with word wrap.
MaxWidth == 2
MaxWrapEdits == 1

\* With word wrap on, sessions are followed while the cursor's visual row
\* stays within MaxRow of the first row.
MaxRow == 3

\* Longest run of selection updates between two selection ends.
MaxUpdates == 3

\* Number of entries of CsiState.params (32 in vt.h).
ParamSlots == 3

\* Longest stream of single bytes, and most parameters, private bytes and
\* separators in the first CSI sequence of a stream.
MaxStream == 5
MaxItems == 4
\* Longest byte string drained through the input classifier.
MaxDrain == 4

\* Passes of the main loop in a run of the user interface, and in a run
\* that renders.
MaxPasses == 4
MaxRenderPasses == 4
\* The terminal, and the rows of the scrolled content.
TermWidth == 8
TermHeight == 5
ContentRows == 5


PaintWidth == 3

PaintHeight == 2

MaxPaintPasses == 4

\* Events behind the first report of the window size in what stdin
\* delivers to the loop of main().
MaxUnits == 2

\* Containers begun in a frame of the runs that build trees.
MaxNodes == 4

\* The largest argument of the indexed colour setters, and the calls made
\* on one node.
MaxIndex == 17
MaxAttrCalls == 2

\* The bits of a node id, and the nodes of a frame whose table is filled.
IdBits == 6
MaxMapNodes == 3

\* --------------------------------------------------------------- constants
COORD_TYPE_MAX == 2147483647
COORD_TYPE_SAFE_MAX == 32767
\* sizeof(TextBuffer) and sizeof(TextBufferChange) on a 64-bit target.
SizeofTextBuffer == 160
SizeofTextBufferChange == 88
NULL == -1

\* Bytes of the model alphabet.
NL == 10

\* enum TextBufferSelectionState
TEXT_BUFFER_SELECTION_NONE == 0
TEXT_BUFFER_SELECTION_MAYBE == 1
TEXT_BUFFER_SELECTION_ACTIVE == 2
TEXT_BUFFER_SELECTION_DONE == 3

\* enum VtParserStateKind
VT_PARSER_STATE_KIND_GROUND == 0
VT_PARSER_STATE_KIND_ESC == 1
VT_PARSER_STATE_KIND_SS3 == 2
VT_PARSER_STATE_KIND_CSI == 3
VT_PARSER_STATE_KIND_OSC == 4
VT_PARSER_STATE_KIND_DCS == 5
VT_PARSER_STATE_KIND_OSC_ESC == 6
VT_PARSER_STATE_KIND_DCS_ESC == 7

\* enum VtTokenType
VT_TOKEN_KIND_TEXT == 0
VT_TOKEN_KIND_CTRL == 1
VT_TOKEN_KIND_ESC == 2
VT_TOKEN_KIND_SS3 == 3
VT_TOKEN_KIND_CSI == 4
VT_TOKEN_KIND_OSC == 5
VT_TOKEN_KIND_DCS == 6
VT_TOKEN_KIND_PENDING == 7

\* enum UiInputType
UI_INPUT_NONE == 0
UI_INPUT_RESIZE == 1
UI_INPUT_TEXT == 2
UI_INPUT_KEYBOARD == 3
UI_INPUT_MOUSE == 4

\* enum KeyboardModifier (0x01000000, 0x02000000, 0x04000000)
KEYBOARD_MODIFIER_CTRL == 16777216
KEYBOARD_MODIFIER_ALT == 33554432
KEYBOARD_MODIFIER_SHIFT == 67108864

\* enum UiInputKeyboardKey, the keys the classifier names
VK_BACK == 8
VK_PRIOR == 33
VK_NEXT == 34
VK_END == 35
VK_HOME == 36
VK_LEFT == 37
VK_UP == 38
VK_RIGHT == 39
VK_DOWN == 40
VK_INSERT == 45
VK_DELETE == 46
VK_F1 == 112
VK_F5 == 116

\* enum MouseAction
MOUSE_ACTION_NONE == 0
MOUSE_ACTION_RELEASE == 1
MOUSE_ACTION_LEFT == 2
MOUSE_ACTION_MIDDLE == 3
MOUSE_ACTION_RIGHT == 4
MOUSE_ACTION_SCROLL == 5
TAB == 9

\* UiContentType
UI_NODE_CONTAINER == 0
UI_NODE_TEXT == 1
UI_NODE_TEXTAREA == 2
UI_NODE_SCROLLAREA == 3

\* ----------------------------------------------------------------- helpers
min_i32(a, b) == IF a < b THEN a ELSE b
max_i32(a, b) == IF a > b THEN a ELSE b
clamp_i32(v, lo, hi) == IF v < lo THEN lo ELSE IF v > hi THEN hi ELSE v

\* Unsigned 64-bit order on the integer representation of usize.
ULt(a, b) ==
    IF a >= 0 /\ b >= 0 THEN a < b
    ELSE IF a < 0 /\ b < 0 THEN a < b
    ELSE a >= 0
min_u64(a, b) == IF ULt(a, b) THEN a ELSE b
max_u64(a, b) == IF ULt(b, a) THEN a ELSE b

RoundUp(n, chunk) == ((n + chunk - 1) \div chunk) * chunk

Point(x, y) == [x |-> x, y |-> y]
ZeroCursor == [offset |-> 0, logical_pos |-> Point(0, 0), visual_pos |-> Point(0, 0)]

\* ------------------------------------------------------------------ memory
\* Committed memory of the text region: a function from byte index to a
\* non-zero byte; an index outside the domain reads as 0 (fresh pages).
MemRead(m, i) == IF i \in DOMAIN m THEN m[i] ELSE 0

MemNorm(m) ==
    LET d == {i \in DOMAIN m : m[i] # 0} IN [i \in d |-> m[i]]

\* memcpy(dst, src, len) of a byte sequence into memory.
MemCopyIn(m, dst, str) ==
    LET n == Len(str)
        d == DOMAIN m \cup {dst + k : k \in 0..(n - 1)}
    IN MemNorm([i \in d |-> IF i >= dst /\ i < dst + n THEN str[i - dst + 1] ELSE m[i]])

\* memmove(dst, src, len) inside memory.
MemMove(m, dst, src, len) ==
    LET n == IF len < 0 THEN 0 ELSE len
        d == DOMAIN m \cup {dst + k : k \in 0..(n - 1)}
    IN MemNorm([i \in d |-> IF i >= dst /\ i < dst + n THEN MemRead(m, src + (i - dst)) ELSE m[i]])

\* The bytes of the s8 {text + beg, len}.
MemSlice(m, beg, len) ==
    [k \in 1..(IF len < 0 THEN 0 ELSE len) |-> MemRead(m, beg + k - 1)]

\* s8_slice on a byte sequence.
s8_slice(str, beg, end) ==
    LET e == min_u64(end, Len(str))
        b == min_u64(beg, e)
    IN SubSeq(str, b + 1, e)

\* --------------------------------------------------------- Unicode oracle
\* ucd.c is not part of the sources; the four operations declared in ucd.h
\* are modelled from their contract: UTF-8 decoding with invalid sequences
\* read as U+FFFD, one grapheme per base code point plus the combining
\* marks that follow it, East Asian wide code points two columns wide.
IsCont(b) == b >= 128 /\ b <= 191

Utf8Need(b) ==
    IF b < 128 THEN 0
    ELSE IF b >= 194 /\ b <= 223 THEN 1
    ELSE IF b >= 224 /\ b <= 239 THEN 2
    ELSE IF b >= 240 /\ b <= 244 THEN 3
    ELSE -1

\* Number of continuation bytes (at most n) that follow the byte at off.
ContRun(str, off, n) ==
    LET ok(k) == \A j \in 1..k : off + j < Len(str) /\ IsCont(str[off + j + 1])
    IN CHOOSE k \in 0..max_i32(n, 0) : ok(k) /\ \A k2 \in (k + 1)..max_i32(n, 0) : ~ok(k2)

\* Length in bytes of the code point (or invalid subsequence) at off.
CpLen(str, off) ==
    LET need == Utf8Need(str[off + 1])
    IN IF need < 0 THEN 1 ELSE 1 + ContRun(str, off, need)

CpValid(str, off) ==
    LET need == Utf8Need(str[off + 1])
    IN need >= 0 /\ ContRun(str, off, need) = need

CpKind(str, off) ==
    LET b == str[off + 1] IN
    IF b = NL THEN "nl"
    ELSE IF CpValid(str, off) /\ b \in {204, 205} THEN "extend"
    ELSE IF CpValid(str, off) /\ b >= 227 /\ b <= 233 THEN "wide"
    ELSE "narrow"

\* Length of the code point that ends at off (off > 0).
CpLenBefore(str, off) ==
    LET pre == SubSeq(str, 1, off)
        fits(j) == off - j >= 0 /\ CpLen(pre, off - j) = j
    IN CHOOSE j \in 1..4 : fits(j) /\ \A j2 \in (j + 1)..4 : ~fits(j2)

RECURSIVE ExtendRun(_, _)
ExtendRun(str, off) ==
    IF off < Len(str) /\ CpKind(str, off) = "extend"
    THEN CpLen(str, off) + ExtendRun(str, off + CpLen(str, off))
    ELSE 0

\* Grapheme cluster that starts at off: its byte length and column width.
ClusterLen(str, off) ==
    LET n == CpLen(str, off) IN n + ExtendRun(str, off + n)

ClusterWidth(str, off) ==
    LET k == CpKind(str, off) IN
    IF k = "wide" THEN 2 ELSE IF k = "extend" THEN 0 ELSE 1

\* Byte length of the grapheme cluster that ends at off (off > 0).
RECURSIVE ClusterLenBefore(_, _)
ClusterLenBefore(str, off) ==
    LET j == CpLenBefore(str, off)
        s == off - j
    IN IF CpKind(str, s) = "extend" /\ s > 0
          /\ CpKind(str, s - CpLenBefore(str, s)) # "nl"
       THEN j + ClusterLenBefore(str, s)
       ELSE j

Unlimited(v) == IF v < 0 THEN COORD_TYPE_MAX ELSE v

Measurement(off, pos, mov, nl) ==
    [offset |-> off, pos |-> pos, movements |-> mov, newline |-> nl]

RECURSIVE MeasureForwardLoop(_, _, _, _, _, _)
MeasureForwardLoop(str, off, pos, stop, limit, mov) ==
    IF off >= Len(str) \/ mov >= limit THEN Measurement(off, pos, mov, FALSE)
    ELSE IF str[off + 1] = NL THEN Measurement(off, pos, mov, TRUE)
    ELSE IF pos.x + ClusterWidth(str, off) > stop THEN Measurement(off, pos, mov, FALSE)
    ELSE MeasureForwardLoop(str, off + ClusterLen(str, off),
                            Point(pos.x + ClusterWidth(str, off), pos.y),
                            stop, limit, mov + 1)

\* ucd_measure_forward: advance from offset over whole graphemes until the
\* column stop, the movement limit, a newline or the end of the slice.  A
\* negative stop or limit means "none".  The newline is not consumed.  Every
\* grapheme boundary is a legal wrap position, so the line_break out
\* parameter receives the returned measurement.
ucd_measure_forward(str, offset, pos, column_stop, cursor_movement_limit) ==
    MeasureForwardLoop(str, offset, pos, Unlimited(column_stop),
                       Unlimited(cursor_movement_limit), 0)

RECURSIVE MeasureBackwardLoop(_, _, _, _, _)
MeasureBackwardLoop(str, off, pos, limit, mov) ==
    IF off <= 0 \/ mov >= limit THEN Measurement(off, pos, mov, FALSE)
    ELSE IF str[off] = NL
         THEN MeasureBackwardLoop(str, off - 1, Point(-1, pos.y - 1), limit, mov + 1)
    ELSE LET n == ClusterLenBefore(str, off)
         IN MeasureBackwardLoop(str, off - n,
                                Point(pos.x - ClusterWidth(str, off - n), pos.y),
                                limit, mov + 1)

\* ucd_measure_backward: the mirror image; crossing a newline is one
\* movement and leaves a negative column, which the caller must renormalise.
ucd_measure_backward(str, offset, pos, column_stop, cursor_movement_limit) ==
    MeasureBackwardLoop(str, offset, pos, Unlimited(cursor_movement_limit), 0)

\* Index (0-based) of the first newline at or after off, or Len(str).
NextNewline(str, off) ==
    LET hits == {i \in off..(Len(str) - 1) : str[i + 1] = NL}
    IN IF hits = {} THEN Len(str) ELSE CHOOSE i \in hits : \A j \in hits : i <= j

\* Index (0-based) of the last newline before off, or -1.
PrevNewline(str, off) ==
    LET hits == {i \in 0..(off - 1) : str[i + 1] = NL}
    IN IF hits = {} THEN -1 ELSE CHOOSE i \in hits : \A j \in hits : i >= j

\* ucd_newlines_forward: advance to the start of line line_stop, counting
\* lines in *line; the end of the slice when there are not enough newlines.
RECURSIVE ucd_newlines_forward(_, _, _, _)
ucd_newlines_forward(str, offset, line, line_stop) ==
    IF line >= line_stop THEN [offset |-> offset, line |-> line]
    ELSE LET i == NextNewline(str, offset) IN
         IF i >= Len(str) THEN [offset |-> Len(str), line |-> line]
         ELSE ucd_newlines_forward(str, i + 1, line + 1, line_stop)

\* ucd_newlines_backward: retreat to the start of line line_stop (also when
\* *line already equals line_stop); offset 0 when the slice has no newline.
RECURSIVE ucd_newlines_backward(_, _, _, _)
ucd_newlines_backward(str, offset, line, line_stop) ==
    LET i == PrevNewline(str, offset) IN
    IF i < 0 THEN [offset |-> 0, line |-> line]
    ELSE IF line <= line_stop THEN [offset |-> i + 1, line |-> line]
    ELSE ucd_newlines_backward(str, i, line - 1, line_stop)

\* -------------------------------------------------------------- text store
\* A TextBuffer is a record; every operation of buffer.c is an operator from
\* the buffer before the call to the buffer after it.
\*   mem          bytes of tb->text (index 0 = first byte after the struct)
\*   undo         the undo region: address (byte offset from undo_base) ->
\*                TextBufferChange, with removed/inserted as byte sequences
\*   undo_base    NULL before the first allocation, 0 afterwards
\*   undo_tail    NULL or the address of a change
\*   hang         set when a loop of the operation can never end: the call
\*                does not return and the other fields are meaningless

\* text_buffer_allocator_default_realloc: the committed length for *new_len.
allocator_realloc(new_len) == RoundUp(new_len, AllocChunk)

text_buffer_create ==
    [mem |-> <<>>,
     main_commit |-> allocator_realloc(SizeofTextBuffer),
     text_length |-> 0, gap_off |-> 0, gap_len |-> 0,
     undo |-> <<>>, undo_base |-> NULL, undo_tail |-> NULL,
     undo_usage |-> 0, undo_commit |-> 0,
     stats |-> [lines |-> 0],
     cursor |-> ZeroCursor,
     selection |-> [beg |-> Point(0, 0), end |-> Point(0, 0),
                    state |-> TEXT_BUFFER_SELECTION_NONE],
     word_wrap_columns |-> -1,
     dirty |-> FALSE, overtype |-> FALSE,
     hang |-> FALSE]

\* Bytes available to tb->text inside the committed region.
Capacity(t) == t.main_commit - SizeofTextBuffer

text_buffer_allocate_gap_impl(t, off0, len) ==
    LET length == t.text_length
        gap_off == t.gap_off
        gap_len == t.gap_len
        off == min_u64(off0, length)
        left == ULt(off, gap_off)
        move_src == IF left THEN off ELSE gap_off + gap_len
        move_dst == IF left THEN off + gap_len ELSE gap_off
        move_len == IF left THEN gap_off - off ELSE off - gap_off
        m1 == IF off # gap_off /\ gap_len > 0
              THEN MemMove(t.mem, move_dst, move_src, move_len)
              ELSE t.mem
        gap_len_new == RoundUp(len + GapChunk \div 2, GapChunk)
        bytes_new == SizeofTextBuffer + length + gap_len_new
        grow == ULt(gap_len, len)
    IN [t EXCEPT
          !.gap_off = off,
          !.main_commit = IF grow /\ ULt(@, bytes_new) THEN allocator_realloc(bytes_new) ELSE @,
          !.mem = IF grow THEN MemMove(m1, off + gap_len_new, off + gap_len, length - off) ELSE m1,
          !.gap_len = IF grow THEN gap_len_new ELSE @]

\* The returned pointer is tb->text + off, with off as passed by the caller.
text_buffer_allocate_gap(t, off, len) ==
    IF off # t.gap_off \/ ULt(t.gap_len, len)
    THEN text_buffer_allocate_gap_impl(t, off, len)
    ELSE t

text_buffer_commit_gap(t, len0) ==
    LET len == min_u64(len0, t.gap_len)
    IN [t EXCEPT !.gap_off = @ + len, !.gap_len = @ - len, !.text_length = @ + len]

text_buffer_read_backward(t, off) ==
    IF ~ULt(t.gap_off, off)
    THEN MemSlice(t.mem, 0, off)
    ELSE MemSlice(t.mem, t.gap_off + t.gap_len, off - t.gap_off)

text_buffer_read_forward(t, off) ==
    IF ULt(off, t.gap_off)
    THEN MemSlice(t.mem, off, t.gap_off - off)
    ELSE MemSlice(t.mem, off + t.gap_len, t.text_length - off)

\* text_buffer_extract with the gap not skipped in the second copy: the
\* fault InsertModeMatchesReference has to detect.
text_buffer_extract_gap_not_skipped(t, beg, end) ==
    IF ~ULt(beg, end) \/ ULt(t.text_length, end) THEN <<>>
    ELSE (IF ULt(beg, t.gap_off)
          THEN MemSlice(t.mem, beg, min_u64(end, t.gap_off) - beg)
          ELSE <<>>)
      \o (IF ULt(t.gap_off, end)
          THEN MemSlice(t.mem, max_u64(beg, t.gap_off),
                        end - max_u64(beg, t.gap_off))
          ELSE <<>>)

text_buffer_extract(t, beg, end) ==
    IF ~ULt(beg, end) \/ ULt(t.text_length, end) THEN <<>>
    ELSE (IF ULt(beg, t.gap_off)
          THEN MemSlice(t.mem, beg, min_u64(end, t.gap_off) - beg)
          ELSE <<>>)
      \o (IF ULt(t.gap_off, end)
          THEN MemSlice(t.mem, t.gap_len + max_u64(beg, t.gap_off),
                        end - max_u64(beg, t.gap_off))
          ELSE <<>>)

ZeroChange ==
    [prev |-> NULL, next |-> NULL, cursor |-> ZeroCursor,
     removed |-> <<>>, inserted |-> <<>>]

text_buffer_record_push_change(t, beg, end, replacement) ==
    IF ULt(end, beg) \/ ULt(t.text_length, end) THEN t
    ELSE
    LET removed_len == end - beg
        space_needed == SizeofTextBufferChange + removed_len + Len(replacement)
        usage_now == t.undo_usage
        grow == usage_now + space_needed > t.undo_commit
        \* realloc() stores the committed length back through &usage_next.
        usage_next == IF grow THEN allocator_realloc(usage_now + space_needed)
                      ELSE usage_now + space_needed
        u1 == IF grow /\ t.undo_tail # NULL
              THEN [a \in DOMAIN t.undo \cup {0} |-> IF a = 0 THEN ZeroChange ELSE t.undo[a]]
              ELSE t.undo
        change == t.undo_usage
        u2 == IF t.undo_tail # NULL
              THEN [u1 EXCEPT ![t.undo_tail].next = change]
              ELSE u1
        rec == [prev |-> t.undo_tail, next |-> NULL, cursor |-> t.cursor,
                removed |-> text_buffer_extract(t, beg, end),
                inserted |-> replacement]
    IN [t EXCEPT
          !.undo_base = 0,
          !.undo_commit = IF grow THEN usage_next ELSE @,
          !.undo = [a \in DOMAIN u2 \cup {change} |-> IF a = change THEN rec ELSE u2[a]],
          !.undo_tail = change,
          !.undo_usage = usage_next,
          !.dirty = TRUE]

\* -------------------------------------------------------------- selection
text_buffer_selection_update(t, pos) ==
    IF t.selection.state = TEXT_BUFFER_SELECTION_NONE
       \/ t.selection.state = TEXT_BUFFER_SELECTION_DONE
    THEN [t EXCEPT !.selection.state = TEXT_BUFFER_SELECTION_MAYBE,
                   !.selection.beg = pos]
    ELSE [t EXCEPT !.selection.state = TEXT_BUFFER_SELECTION_ACTIVE,
                   !.selection.end = pos]

\* text_buffer_selection_end with a single click counted as a selection.
text_buffer_selection_end_maybe_is_active(t) ==
    LET active == t.selection.state >= TEXT_BUFFER_SELECTION_MAYBE
                  /\ t.selection.state # TEXT_BUFFER_SELECTION_DONE
    IN [tb |-> [t EXCEPT !.selection.state =
                             IF active THEN TEXT_BUFFER_SELECTION_DONE
                             ELSE TEXT_BUFFER_SELECTION_NONE],
        ret |-> active]

\* text_buffer_selection_end: the buffer after the call and the value
\* returned.
text_buffer_selection_end(t) ==
    LET active == t.selection.state = TEXT_BUFFER_SELECTION_ACTIVE
    IN [tb |-> [t EXCEPT !.selection.state =
                             IF active THEN TEXT_BUFFER_SELECTION_DONE
                             ELSE TEXT_BUFFER_SELECTION_NONE],
        ret |-> active]

\* ---------------------------------------------------------- cursor motion
\* Each operation is written as a chain of steps; a step is a local operator
\* whose parameter is the buffer (or measurement) the previous statement of
\* the C function left behind.

\* First loop of text_buffer_goto_line_start: walk forward chunk by chunk.
RECURSIVE GotoLineForward(_, _)
GotoLineForward(t, y) ==
    LET Advance(r) ==
            GotoLineForward([t EXCEPT !.cursor.offset = @ + r.offset,
                                      !.cursor.logical_pos.y = r.line], y)
        Step(chunk) ==
            IF Len(chunk) = 0 THEN t
            ELSE Advance(ucd_newlines_forward(chunk, 0, t.cursor.logical_pos.y, y))
    IN IF ~(y > t.cursor.logical_pos.y) THEN t
       ELSE Step(text_buffer_read_forward(t, t.cursor.offset))

\* The do-while loop of text_buffer_goto_line_start: walk backward.
RECURSIVE GotoLineBackward(_, _)
GotoLineBackward(t, y) ==
    LET Again(t1) ==
            IF y < t1.cursor.logical_pos.y THEN GotoLineBackward(t1, y) ELSE t1
        Retreat(chunk, r) ==
            Again([t EXCEPT !.cursor.offset = @ - (Len(chunk) - r.offset),
                            !.cursor.logical_pos.y = r.line])
        Step(chunk) ==
            IF Len(chunk) = 0 THEN t
            ELSE Retreat(chunk, ucd_newlines_backward(chunk, Len(chunk),
                                                      t.cursor.logical_pos.y, y))
    IN Step(text_buffer_read_backward(t, t.cursor.offset))

\* The row-counting loop of text_buffer_goto_line_start with word wrap on:
\* the number of wrapped rows between offset and goal_offset.  pos is never
\* advanced.  When the oracle returns without consuming a byte the loop
\* repeats the same iteration for ever; the result is then -1.
RECURSIVE GotoLineRows(_, _, _, _, _)
GotoLineRows(t, pos, offset, goal_offset, delta) ==
    LET Wrapped(wrap) ==
            IF ~ULt(offset + wrap.offset, goal_offset) THEN delta
            ELSE IF wrap.offset = 0 THEN -1
            ELSE GotoLineRows(t, pos, offset + wrap.offset, goal_offset, delta + 1)
        Step(chunk) ==
            IF Len(chunk) = 0 THEN delta
            ELSE Wrapped(ucd_measure_forward(chunk, 0, pos, t.word_wrap_columns, -1))
    IN Step(text_buffer_read_forward(t, offset))

text_buffer_goto_line_start(t, y) ==
    LET down == y > t.cursor.logical_pos.y
        start_offset == t.cursor.offset
        Rows(t2, delta) ==
            [t2 EXCEPT !.cursor.logical_pos.x = 0,
                       !.cursor.visual_pos =
                           Point(0, @.y + (IF ULt(t2.cursor.offset, start_offset)
                                           THEN -delta ELSE delta)),
                       !.hang = @ \/ delta < 0]
        Done(t2) ==
            IF t2.word_wrap_columns < 0
            THEN [t2 EXCEPT !.cursor.logical_pos.x = 0,
                            !.cursor.visual_pos = Point(0, t2.cursor.logical_pos.y)]
            ELSE IF ULt(start_offset, t2.cursor.offset)
            THEN Rows(t2, GotoLineRows(t2, Point(t2.cursor.visual_pos.x, 0),
                                       start_offset, t2.cursor.offset, 0))
            ELSE IF ULt(t2.cursor.offset, start_offset)
            THEN Rows(t2, GotoLineRows(t2, Point(0, 0),
                                       t2.cursor.offset, start_offset, 0))
            ELSE Rows(t2, 0)
        Back(t1) ==
            IF down /\ t1.cursor.offset # t1.text_length
            THEN t1
            ELSE GotoLineBackward(t1, IF down THEN t1.cursor.logical_pos.y - 1 ELSE y)
    IN Done(Back(IF down THEN GotoLineForward(t, y) ELSE t))

\* The while loop of text_buffer_cursor_move_to_logical, word wrap off.
RECURSIVE MoveLogicalLoop(_, _)
MoveLogicalLoop(t, x) ==
    LET Moved1(t1, more) == IF more THEN MoveLogicalLoop(t1, x) ELSE t1
        Measured(chunk, m) ==
            Moved1([t EXCEPT !.cursor.offset = @ + m.offset,
                             !.cursor.logical_pos.x = @ + m.movements,
                             !.cursor.visual_pos = m.pos],
                   ~(m.offset < Len(chunk)))
        Step(chunk) ==
            IF Len(chunk) = 0 THEN t
            ELSE Measured(chunk, ucd_measure_forward(chunk, 0, t.cursor.visual_pos, -1,
                                                     x - t.cursor.logical_pos.x))
    IN IF ~(x > t.cursor.logical_pos.x) THEN t
       ELSE Step(text_buffer_read_forward(t, t.cursor.offset))

\* The while (true) loop of text_buffer_cursor_move_to_logical, word wrap on.
RECURSIVE MoveLogicalWrapLoop(_, _)
MoveLogicalWrapLoop(t, x) ==
    LET Moved1(t1, more) ==
            IF more
            THEN MoveLogicalWrapLoop(
                     [t1 EXCEPT !.cursor.visual_pos = Point(0, @.y + 1)], x)
            ELSE t1
        Measured(chunk, m) ==
            Moved1([t EXCEPT !.cursor.offset = @ + m.offset,
                             !.cursor.logical_pos.x = @ + m.movements,
                             !.cursor.visual_pos = m.pos],
                   ~(m.offset < Len(chunk)))
        Step(chunk) ==
            IF Len(chunk) = 0 THEN t
            ELSE Measured(chunk, ucd_measure_forward(chunk, 0, t.cursor.visual_pos,
                                                     t.word_wrap_columns,
                                                     x - t.cursor.logical_pos.x))
    IN Step(text_buffer_read_forward(t, t.cursor.offset))

text_buffer_cursor_move_to_logical(t, pos) ==
    LET Walk(t1, x) ==
            IF t1.word_wrap_columns < 0 THEN MoveLogicalLoop(t1, x)
            ELSE IF x > t1.cursor.logical_pos.x THEN MoveLogicalWrapLoop(t1, x)
            ELSE t1
    IN Walk(text_buffer_goto_line_start(t, max_i32(pos.y, 0)), max_i32(pos.x, 0))

\* text_buffer_reflow
text_buffer_reflow(t, width) ==
    LET Set(w) ==
            IF t.word_wrap_columns = w THEN t
            ELSE text_buffer_cursor_move_to_logical(
                     [t EXCEPT !.word_wrap_columns = w, !.cursor = ZeroCursor],
                     t.cursor.logical_pos)
    IN Set(IF width <= 0 THEN -1 ELSE width)

\* The while loop of text_buffer_cursor_move_to_visual, word wrap off.
RECURSIVE MoveVisualLoop(_, _)
MoveVisualLoop(t, x) ==
    LET Moved1(t1, more) == IF more THEN MoveVisualLoop(t1, x) ELSE t1
        Measured(chunk, m) ==
            Moved1([t EXCEPT !.cursor.offset = @ + m.offset,
                             !.cursor.logical_pos.x = @ + m.movements,
                             !.cursor.visual_pos = m.pos],
                   ~(m.offset < Len(chunk)))
        Step(chunk) ==
            IF Len(chunk) = 0 THEN t
            ELSE Measured(chunk, ucd_measure_forward(chunk, 0, t.cursor.visual_pos, x, -1))
    IN IF ~(x > t.cursor.visual_pos.x) THEN t
       ELSE Step(text_buffer_read_forward(t, t.cursor.offset))

\* while (y < tb->cursor.visual_pos.y) of text_buffer_cursor_move_to_visual,
\* word wrap on.  An iteration that leaves the cursor where it was repeats
\* for ever.
RECURSIVE MoveVisualUp(_, _)
MoveVisualUp(t, y) ==
    LET Again(t1) ==
            IF t1.hang THEN t1
            ELSE IF t1.cursor = t.cursor THEN [t1 EXCEPT !.hang = TRUE]
            ELSE MoveVisualUp(t1, y)
    IN IF ~(y < t.cursor.visual_pos.y) THEN t
       ELSE Again(text_buffer_cursor_move_to_logical(
                      t, Point(0, t.cursor.logical_pos.y - 1)))

\* The while (true) loop of text_buffer_cursor_move_to_visual, word wrap on.
RECURSIVE MoveVisualWrapLoop(_, _, _)
MoveVisualWrapLoop(t, x, y) ==
    LET Skipped(t2, m, r) ==
            [t2 EXCEPT !.cursor.logical_pos = Point(0, r.line),
                       !.cursor.offset = @ + (r.offset - m.offset)]
        NextRow(t2, chunk, m) ==
            MoveVisualWrapLoop(
                IF m.newline
                THEN Skipped(t2, m, ucd_newlines_forward(chunk, m.offset,
                                                         t2.cursor.logical_pos.y,
                                                         t2.cursor.logical_pos.y + 1))
                ELSE t2, x, y)
        Moved1(t1, chunk, m) ==
            IF m.offset < Len(chunk) /\ t1.cursor.visual_pos.y >= y THEN t1
            ELSE NextRow([t1 EXCEPT !.cursor.visual_pos = Point(0, @.y + 1)], chunk, m)
        Measured(chunk, m) ==
            Moved1([t EXCEPT !.cursor.offset = @ + m.offset,
                             !.cursor.logical_pos.x = @ + m.movements,
                             !.cursor.visual_pos = m.pos], chunk, m)
        Step(chunk) ==
            IF Len(chunk) = 0 THEN t
            ELSE Measured(chunk, ucd_measure_forward(
                                     chunk, 0, t.cursor.visual_pos,
                                     IF t.cursor.visual_pos.y >= y
                                     THEN x ELSE t.word_wrap_columns, -1))
    IN Step(text_buffer_read_forward(t, t.cursor.offset))

text_buffer_cursor_move_to_visual(t, pos) ==
    LET x == max_i32(pos.x, 0)
        y == max_i32(pos.y, 0)
        Across(t1) ==
            IF ~t1.hang /\ (y > t1.cursor.visual_pos.y \/ x > t1.cursor.visual_pos.x)
            THEN MoveVisualWrapLoop(t1, x, y)
            ELSE t1
    IN IF t.word_wrap_columns < 0
       THEN MoveVisualLoop(text_buffer_cursor_move_to_logical(t, Point(0, y)), x)
       ELSE Across(MoveVisualUp(t, y))

\* One cursor_move_to_logical of text_buffer_cursor_move_delta: the step
\* by one column, and, when the offset did not change (second), the step
\* to the end of the previous or the start of the next line.
RECURSIVE MoveDeltaStep(_, _, _, _)
MoveDeltaStep(t, left, offset, second) ==
    LET y == t.cursor.logical_pos.y
        x == t.cursor.logical_pos.x
        Moved1(t1) ==
            IF ~second /\ offset = t1.cursor.offset
            THEN MoveDeltaStep(t1, left, offset, TRUE)
            ELSE t1
    IN Moved1(text_buffer_cursor_move_to_logical(
                  t, IF second
                     THEN (IF left THEN Point(COORD_TYPE_SAFE_MAX, y - 1)
                           ELSE Point(0, y + 1))
                     ELSE (IF left THEN Point(x - 1, y) ELSE Point(x + 1, y))))

text_buffer_cursor_move_delta(t, cursor_movements) ==
    IF cursor_movements = 0 THEN t
    ELSE MoveDeltaStep(t, cursor_movements < 0, t.cursor.offset, FALSE)

\* ------------------------------------------------------------- undo / redo
\* text_buffer_apply_change on the change stored at address c.
text_buffer_apply_change(t, c) ==
    LET change == t.undo[c]
        dst == change.cursor.offset
        \* cursor.offset += after.offset; cursor.logical_pos = after.pos
        Place(t4, after) ==
            [t4 EXCEPT !.cursor.offset = @ + after.offset,
                       !.cursor.logical_pos = after.pos]
        \* after text_buffer_cursor_move_delta(tb, -1)
        Backed(t4, backoff_count) ==
            Place(t4, ucd_measure_forward(
                          s8_slice(text_buffer_read_forward(t4, t4.cursor.offset), 0,
                                   backoff_count + Len(change.removed)),
                          0, t4.cursor.logical_pos, COORD_TYPE_MAX, COORD_TYPE_MAX))
        \* after text_buffer_commit_gap
        Inserted(t3) ==
            Backed(text_buffer_cursor_move_delta(t3, -1), t3.cursor.offset)
        \* after text_buffer_allocate_gap: the excerpts of
        \* text_buffer_delete_right and text_buffer_insert
        Allocated(t1) ==
            Inserted(text_buffer_commit_gap(
                [t1 EXCEPT !.gap_len = @ + Len(change.inserted),
                           !.text_length = @ - Len(change.inserted),
                           !.mem = MemCopyIn(@, dst, change.removed)],
                Len(change.removed)))
    IN Allocated(text_buffer_allocate_gap(
           [t EXCEPT !.cursor = change.cursor], dst,
           max_u64(Len(change.removed), Len(change.inserted)) - Len(change.inserted)))

\* The tail of undo and redo: store the cursor and swap removed/inserted.
SwapChange(t, c, cursor) ==
    [t EXCEPT !.undo[c] = [@ EXCEPT !.cursor = cursor,
                                    !.removed = t.undo[c].inserted,
                                    !.inserted = t.undo[c].removed]]

text_buffer_undo(t) ==
    LET Applied(t1) == SwapChange(t1, t.undo_tail, t1.cursor)
    IN IF t.undo_tail = NULL THEN t
       ELSE Applied(text_buffer_apply_change(
                [t EXCEPT !.undo_tail = t.undo[t.undo_tail].prev], t.undo_tail))

\* The change text_buffer_redo is about to apply, or NULL.
RedoTarget(t) ==
    LET first == IF t.undo_tail # NULL THEN t.undo_tail ELSE t.undo_base
    IN IF first = NULL THEN NULL ELSE t.undo[first].next

text_buffer_redo(t) ==
    LET Chosen(change) ==
            IF change = NULL THEN t
            ELSE SwapChange(text_buffer_apply_change([t EXCEPT !.undo_tail = change],
                                                     change),
                            change, t.cursor)
    IN Chosen(RedoTarget(t))

\* ---------------------------------------------------------- write / delete
text_buffer_write(t, str) ==
    LET \* the tail of the function, after the measurements
        Finish(t1, off_beg, off_end, next) ==
            [text_buffer_commit_gap(
                 text_buffer_record_push_change(t1, off_beg, off_end, str), Len(str))
             EXCEPT !.gap_len = @ + (off_end - off_beg),
                    !.cursor.offset = next.offset,
                    !.cursor.logical_pos = next.pos]
        \* if (tb->overtype) { ... }
        Replace(t1, prev_bck, prev_fwd, next, fwd) ==
            IF ~t1.overtype
            THEN Finish(t1, t1.cursor.offset, t1.cursor.offset, next)
            ELSE Finish(t1,
                        IF prev_fwd.offset # t1.gap_off
                        THEN prev_bck.offset ELSE prev_fwd.offset,
                        t1.gap_off + fwd.offset, next)
        Next3(t1, prev_bck, prev_fwd, next) ==
            Replace(t1, prev_bck, prev_fwd, next,
                    ucd_measure_forward(text_buffer_read_forward(t1, t1.cursor.offset), 0,
                                        t1.cursor.logical_pos, COORD_TYPE_MAX,
                                        next.movements))
        Next2(t1, text, prev_bck, prev_fwd) ==
            Next3(t1, prev_bck, prev_fwd,
                  ucd_measure_forward(text, prev_fwd.offset, prev_fwd.pos, -1, -1))
        Next1(t1, text, prev_bck) ==
            Next2(t1, text, prev_bck,
                  ucd_measure_forward(text, prev_bck.offset, prev_bck.pos, -1, 1))
        Here(t1) == Measurement(t1.gap_off, t1.cursor.logical_pos, 0, FALSE)
        \* after text_buffer_allocate_gap and memcpy
        Copied(t1, text) ==
            IF t1.gap_off = 0 \/ MemRead(t1.mem, t1.gap_off - 1) = TAB
            THEN Next2(t1, text, Here(t1), Here(t1))
            ELSE Next1(t1, text,
                       ucd_measure_backward(text, t1.gap_off, t1.cursor.logical_pos, -1, 1))
        Allocated(ta) ==
            Copied([ta EXCEPT !.mem = MemCopyIn(@, t.cursor.offset, str)],
                   MemSlice(MemCopyIn(ta.mem, t.cursor.offset, str), 0,
                            ta.gap_off + Len(str)))
    IN IF Len(str) = 0 THEN t
       ELSE Allocated(text_buffer_allocate_gap(t, t.cursor.offset, Len(str)))

text_buffer_delete(t, cursor_movements) ==
    LET Remove(t2, count) ==
            [t2 EXCEPT !.gap_len = @ + count, !.text_length = @ - count]
        Ordered(moved, cursor_beg, cursor_end) ==
            Remove(text_buffer_record_push_change(
                       text_buffer_allocate_gap([moved EXCEPT !.cursor = cursor_beg],
                                                cursor_beg.offset, 0),
                       cursor_beg.offset, cursor_end.offset, <<>>),
                   cursor_end.offset - cursor_beg.offset)
        Moved1(moved) ==
            IF t.cursor.offset = moved.cursor.offset THEN moved
            ELSE IF ULt(moved.cursor.offset, t.cursor.offset)
            THEN Ordered(moved, moved.cursor, t.cursor)
            ELSE Ordered(moved, t.cursor, moved.cursor)
    IN Moved1(text_buffer_cursor_move_delta(t, cursor_movements))

\* ------------------------------------------------------------------ files
\* os_open_file_for_reading and os_open_file_for_writing return what
\* CreateFileW returns: a handle when the file was opened (found), and
\* INVALID_HANDLE_VALUE, which is (HANDLE)-1 and not NULL, when it was not.
INVALID_HANDLE_VALUE == -1

os_open_file(found) == IF found THEN 1 ELSE INVALID_HANDLE_VALUE

\* text_buffer_read_file; opened is "file != NULL", file is what
\* os_read_file delivers (nothing when the handle is invalid:
\* GetFileSizeEx and ReadFile fail and leave size and read at 0).  The
\* file is shorter than the first chunk, so the read loop runs once.

text_buffer_read_file(t, opened, file) ==
    LET Counted(t2, r) == [t2 EXCEPT !.stats.lines = r.line + 1]
        Read(t2) ==
            Counted(t2, ucd_newlines_forward(
                            text_buffer_read_forward(t2, t2.cursor.offset), 0,
                            t2.stats.lines, COORD_TYPE_MAX))
        Allocated(t1) ==
            Read(text_buffer_commit_gap(
                     [t1 EXCEPT !.mem = MemCopyIn(@, t.text_length, file)], Len(file)))
    IN IF ~opened THEN t
       ELSE Allocated(text_buffer_allocate_gap(t, t.text_length,
                                               Len(file) + AllocChunk \div 2))

\* os_get_last_error: the PlatformError made from GetLastError().  A
\* PlatformError is a u32, kept here as its two 16-bit halves <<high, low>>;
\* 0x80070000 | (error & 0xffff) has the high half 0x8007 = 32775.  Of the
\* codes that are not positive only 0 is drawn.
os_get_last_error(error) ==
    IF error <= 0 THEN <<0, 0>> ELSE <<32775, error % 65536>>

\* os_write_file of length bytes; last_error is what GetLastError() says
\* when WriteFile fails, 0 when WriteFile writes everything.  An invalid
\* handle makes WriteFile fail with ERROR_INVALID_HANDLE (6).  Nothing is
\* written, and nothing can fail, when length is 0.
os_write_file(handle, length, last_error) ==
    IF length = 0 THEN <<0, 0>>
    ELSE IF handle = INVALID_HANDLE_VALUE THEN os_get_last_error(6)
    ELSE os_get_last_error(last_error)

\* text_buffer_write_file returns void; opened is "file != NULL".  The two
\* results of os_write_file are dropped.
text_buffer_write_file(t, opened) ==
    IF ~opened THEN t ELSE [t EXCEPT !.dirty = FALSE]

\* The document as the caller sees it: extract(0, text_length).
Doc(t) == text_buffer_extract(t, 0, t.text_length)

\* ----------------------------------------------------------- VT tokenizer
\* A VtParserState is a record.  Pointers into the input are byte positions
\* in the whole stream S that stdin delivers: the buffers of successive
\* os_read_stdin calls lie back to back, as consecutive allocations from one
\* arena can, so that it - state->osc.beg is the distance in S.  text, osc
\* and dcs are [beg, len]; csi.params has ParamSlots entries.
VtParserStateZero ==
    [_state |-> VT_PARSER_STATE_KIND_GROUND, kind |-> VT_TOKEN_KIND_TEXT,
     text |-> [beg |-> 0, len |-> 0], ctrl |-> 0, esc |-> 0, ss3 |-> 0,
     csi |-> [params |-> [i \in 0..(ParamSlots - 1) |-> 0], param_count |-> 0,
              private_byte |-> 0, final_byte |-> 0],
     osc |-> [beg |-> 0, len |-> 0], dcs |-> [beg |-> 0, len |-> 0]]

RECURSIVE TextEnd(_, _, _)
\* A text scan that does not move.
TextEnd_stuck(S, it, end) == it

\* for (; it != end && (*it >= '\x20' && *it != '\x7f'); it += 1)
TextEnd(S, it, end) ==
    IF it # end /\ S[it + 1] >= 32 /\ S[it + 1] # 127
    THEN TextEnd(S, it + 1, end) ELSE it

\* The reset of the parameters when ESC [ is seen.  With param_count above
\* the number of slots the loop writes behind the array.  What that does is
\* up to the build: "alias" is the struct layout taken literally (the slot
\* behind the array is param_count itself, so the loop stops with the old
\* parameters in place; the next one behind holds private_byte and
\* final_byte, which are 0 by then), "memset" is a build that keeps the
\* counter in a register and clears all the slots.  Stores still further
\* behind the array land in osc and dcs, which ESC ] and ESC P set anew;
\* they are left out.
CsiReset(state, build) ==
    LET n == state.csi.param_count
        cleared == [i \in 0..(ParamSlots - 1) |->
                        IF i < n THEN 0 ELSE state.csi.params[i]]
    IN IF n > ParamSlots /\ build = "alias"
       THEN [state EXCEPT !._state = VT_PARSER_STATE_KIND_CSI,
                          !.csi.private_byte = 0, !.csi.final_byte = 0,
                          !.csi.param_count = 0]
       ELSE [state EXCEPT !._state = VT_PARSER_STATE_KIND_CSI,
                          !.csi.private_byte = 0, !.csi.final_byte = 0,
                          !.csi.param_count = 0,
                          !.csi.params = cleared]

\* while (it != end && *it >= '0' && *it <= '9') of the CSI state: the
\* parameter value and the position after the digits.
RECURSIVE CsiDigits(_, _, _, _, _)
CsiDigits(S, it, end, v, store) ==
    IF it # end /\ S[it + 1] >= 48 /\ S[it + 1] <= 57
    THEN CsiDigits(S, it + 1, end,
                   IF store THEN min_i32(v * 10 + (S[it + 1] - 48), 65535) ELSE v,
                   store)
    ELSE [it |-> it, v |-> v]

\* for (;;) of case VT_PARSER_STATE_KIND_CSI
RECURSIVE CsiLoop(_, _, _, _)
CsiLoop(state, S, it, end) ==
    LET has_slot == state.csi.param_count < ParamSlots
        Final(st, c, it2) ==
            IF c >= 64 /\ c <= 126
            THEN [state |-> [st EXCEPT !._state = VT_PARSER_STATE_KIND_GROUND,
                                       !.kind = VT_TOKEN_KIND_CSI,
                                       !.csi.final_byte = c,
                                       !.csi.param_count = @ + 1],
                  it |-> it2]
            ELSE CsiLoop([st EXCEPT !.csi.param_count = IF c = 59 THEN @ + 1 ELSE @,
                                    !.csi.private_byte =
                                        IF c >= 60 /\ c <= 63 THEN c ELSE @],
                         S, it2, end)
        Parsed(st, it1) ==
            IF it1 = end THEN [state |-> st, it |-> it1]
            ELSE Final(st, S[it1 + 1], it1 + 1)
        Digits(d) ==
            Parsed(IF has_slot
                   THEN [state EXCEPT !.csi.params[state.csi.param_count] = d.v]
                   ELSE state, d.it)
    IN Digits(CsiDigits(S, it, end,
                        IF has_slot THEN state.csi.params[state.csi.param_count] ELSE 0,
                        has_slot))

\* for (; it != end && *it != '\a' && *it != '\x1b'; it += 1)
RECURSIVE StringEnd(_, _, _)
StringEnd(S, it, end) ==
    IF it # end /\ S[it + 1] # 7 /\ S[it + 1] # 27
    THEN StringEnd(S, it + 1, end) ELSE it

\* for (;;) of case VT_PARSER_STATE_KIND_OSC / VT_PARSER_STATE_KIND_DCS
RECURSIVE StringLoop(_, _, _, _)
StringLoop(state, S, it, end) ==
    LET is_osc == state._state = VT_PARSER_STATE_KIND_OSC
        Ground(st, it3) ==
            [state |-> [st EXCEPT !._state = VT_PARSER_STATE_KIND_GROUND], it |-> it3]
        Escape(st, it2) ==
            IF it2 = end
            THEN [state |-> [st EXCEPT !._state = IF is_osc
                                                 THEN VT_PARSER_STATE_KIND_OSC_ESC
                                                 ELSE VT_PARSER_STATE_KIND_DCS_ESC],
                  it |-> it2]
            ELSE IF S[it2 + 1] # 92 THEN StringLoop(st, S, it2, end)
            ELSE Ground(st, it2 + 1)
        Found(st, it1) ==
            IF it1 = end THEN [state |-> st, it |-> it1]
            ELSE IF S[it1 + 1] = 27 THEN Escape(st, it1 + 1)
            ELSE Ground(st, it1 + 1)
        Scanned(it1) ==
            Found([state EXCEPT !.kind = IF is_osc THEN VT_TOKEN_KIND_OSC
                                         ELSE VT_TOKEN_KIND_DCS,
                                !.osc.len = it1 - state.osc.beg], it1)
    IN Scanned(StringEnd(S, it, end))

\* while (it != end) { switch (state->_state) ... } of vt_parse_next_token
RECURSIVE VtLoop(_, _, _, _, _)
VtLoop(state, S, it, end, build) ==
    LET c == S[it + 1]
        s == state._state
    IN IF it = end THEN [state |-> state, it |-> it]
       ELSE IF s = VT_PARSER_STATE_KIND_GROUND THEN
            IF c = 27
            THEN VtLoop([state EXCEPT !._state = VT_PARSER_STATE_KIND_ESC],
                        S, it + 1, end, build)
            ELSE IF c < 32 \/ c = 127
            THEN [state |-> [state EXCEPT !.kind = VT_TOKEN_KIND_CTRL, !.ctrl = c],
                  it |-> it + 1]
            ELSE [state |-> [state EXCEPT !.kind = VT_TOKEN_KIND_TEXT,
                                          !.text = [beg |-> it,
                                                    len |-> TextEnd(S, it, end) - it]],
                  it |-> TextEnd(S, it, end)]
       ELSE IF s = VT_PARSER_STATE_KIND_ESC THEN
            IF c = 91 THEN VtLoop(CsiReset(state, build), S, it + 1, end, build)
            ELSE IF c = 93
            THEN VtLoop([state EXCEPT !._state = VT_PARSER_STATE_KIND_OSC,
                                      !.osc = [beg |-> it + 1, len |-> 0]],
                        S, it + 1, end, build)
            ELSE IF c = 79
            THEN VtLoop([state EXCEPT !._state = VT_PARSER_STATE_KIND_SS3],
                        S, it + 1, end, build)
            ELSE IF c = 80
            THEN VtLoop([state EXCEPT !._state = VT_PARSER_STATE_KIND_DCS,
                                      !.dcs = [beg |-> it + 1, len |-> 0]],
                        S, it + 1, end, build)
            ELSE [state |-> [state EXCEPT !._state = VT_PARSER_STATE_KIND_GROUND,
                                          !.kind = VT_TOKEN_KIND_ESC, !.esc = c],
                  it |-> it + 1]
       ELSE IF s = VT_PARSER_STATE_KIND_SS3
       THEN [state |-> [state EXCEPT !._state = VT_PARSER_STATE_KIND_GROUND,
                                     !.kind = VT_TOKEN_KIND_SS3, !.ss3 = c],
             it |-> it + 1]
       ELSE IF s = VT_PARSER_STATE_KIND_CSI THEN CsiLoop(state, S, it, end)
       ELSE IF s = VT_PARSER_STATE_KIND_OSC \/ s = VT_PARSER_STATE_KIND_DCS
       THEN StringLoop(state, S, it, end)
       ELSE IF c = 92
       THEN [state |-> [state EXCEPT
                            !.kind = IF s = VT_PARSER_STATE_KIND_OSC_ESC
                                     THEN VT_TOKEN_KIND_OSC ELSE VT_TOKEN_KIND_DCS,
                            !.osc.len = it + 1 - state.osc.beg],
             it |-> it + 1]
       ELSE VtLoop([state EXCEPT !._state = IF s = VT_PARSER_STATE_KIND_OSC_ESC
                                            THEN VT_PARSER_STATE_KIND_OSC
                                            ELSE VT_PARSER_STATE_KIND_DCS],
                   S, it, end, build)

\* vt_parse_next_token with a parser that forgets where it was: every call
\* starts in GROUND.
vt_parse_next_token_from_ground(state, S, beg, end, build) ==
    VtLoop([state EXCEPT !.kind = VT_TOKEN_KIND_PENDING,
                         !._state = VT_PARSER_STATE_KIND_GROUND], S, beg, end, build)

\* vt_parse_next_token on the bytes [beg, end) of S: the parser state after
\* the call and the returned pointer.
vt_parse_next_token(state, S, beg, end, build) ==
    VtLoop([state EXCEPT !.kind = VT_TOKEN_KIND_PENDING], S, beg, end, build)

\* ------------------------------------------------------- input classifier
\* UiInput result = {}.  The members of the union are kept as separate
\* fields; only those of the reported type mean anything.
UiInputZero ==
    [type |-> UI_INPUT_NONE, text |-> <<>>,
     keyboard |-> [key |-> 0, modifiers |-> 0],
     mouse |-> [action |-> MOUSE_ACTION_NONE, modifier |-> 0,
                position |-> Point(0, 0), scroll |-> Point(0, 0)],
     resize |-> [width |-> 0, height |-> 0]]

\* get_next_ui_input on the bytes [it, end) of S: the parser state, the
\* start of what is left of the input and the event.  oob is the byte that
\* a read outside one of the two lookup tables returns.  assert is compiled
\* out (NDEBUG).
RECURSIVE get_next_ui_input(_, _, _, _, _, _)
get_next_ui_input(state, S, it, end, build, oob) ==
    LET Bit(n, k) == (n \div (2 ^ k)) % 2
        \* static const u8 lut[] of the final bytes 'A'..'H', index
        \* final_byte - 'A'; '@' is index -1
        LutFinal(i) ==
            IF i < 0 THEN oob
            ELSE <<VK_UP, VK_DOWN, VK_RIGHT, VK_LEFT, 0, VK_END, 0, VK_HOME>>[i + 1]
        \* static const u8 lut[] of CSI ~, indices 0..34; 35 passes the
        \* test p0 <= array_size(lut)
        LutTilde(p0) ==
            IF p0 >= 35 THEN oob
            ELSE <<0, VK_HOME, VK_INSERT, VK_DELETE, VK_END, VK_PRIOR, VK_NEXT,
                   0, 0, 0, 0, 0, 0, 0, 0, VK_F5, 0, VK_F5 + 1, VK_F5 + 2,
                   VK_F5 + 3, VK_F5 + 4, VK_F5 + 5, 0, VK_F5 + 6, VK_F5 + 7,
                   VK_F5 + 8, VK_F5 + 9, 0, VK_F5 + 10, VK_F5 + 11, 0,
                   VK_F5 + 12, VK_F5 + 13, VK_F5 + 14, VK_F5 + 15>>[p0 + 1]
        Done(st, it1, result) == [state |-> st, it |-> it1, result |-> result]
        \* parse_modifiers:
        Modifiers(st, it1, result, p1) ==
            Done(st, it1,
                 [result EXCEPT !.keyboard.modifiers =
                      @ + (IF Bit(@, 26) = 0 /\ Bit(p1, 0) = 1
                           THEN KEYBOARD_MODIFIER_SHIFT ELSE 0)
                        + (IF Bit(@, 25) = 0 /\ Bit(p1, 1) = 1
                           THEN KEYBOARD_MODIFIER_ALT ELSE 0)
                        + (IF Bit(@, 24) = 0 /\ Bit(p1, 2) = 1
                           THEN KEYBOARD_MODIFIER_CTRL ELSE 0)])
        ParseModifiers(st, it1, result) ==
            Modifiers(st, it1, result, max_i32(st.csi.params[1] - 1, 0))
        Key(st, it1, key, modifiers) ==
            Done(st, it1, [UiInputZero EXCEPT !.type = UI_INPUT_KEYBOARD,
                                              !.keyboard.key = key,
                                              !.keyboard.modifiers = modifiers])
        CsiKey(st, it1, vk) ==
            IF vk # 0
            THEN ParseModifiers(st, it1, [UiInputZero EXCEPT
                                              !.type = UI_INPUT_KEYBOARD,
                                              !.keyboard.key = vk])
            ELSE get_next_ui_input(st, S, it1, end, build, oob)
        Mouse(st, it1, btn) ==
            Done(st, it1,
                 [UiInputZero EXCEPT
                      !.type = UI_INPUT_MOUSE,
                      !.mouse.action =
                          IF Bit(btn, 6) = 1 THEN MOUSE_ACTION_SCROLL
                          ELSE IF st.csi.final_byte = 77
                          THEN <<MOUSE_ACTION_LEFT, MOUSE_ACTION_MIDDLE,
                                 MOUSE_ACTION_RIGHT, MOUSE_ACTION_NONE>>[(btn % 4) + 1]
                          ELSE MOUSE_ACTION_NONE,
                      !.mouse.scroll =
                          IF Bit(btn, 6) = 1
                          THEN Point(0, IF Bit(btn, 0) = 1 THEN 3 ELSE -3)
                          ELSE Point(0, 0),
                      !.mouse.modifier =
                          (IF Bit(btn, 2) = 1 THEN KEYBOARD_MODIFIER_SHIFT ELSE 0)
                          + (IF Bit(btn, 3) = 1 THEN KEYBOARD_MODIFIER_ALT ELSE 0)
                          + (IF Bit(btn, 4) = 1 THEN KEYBOARD_MODIFIER_CTRL ELSE 0),
                      !.mouse.position = Point(st.csi.params[1] - 1,
                                               st.csi.params[2] - 1)])
        Token(st, it1) ==
            LET k == st.kind
                c == st.ctrl
                f == st.csi.final_byte
            IN IF k = VT_TOKEN_KIND_TEXT
               THEN Done(st, it1, [UiInputZero EXCEPT
                                       !.type = UI_INPUT_TEXT,
                                       !.text = [i \in 1..st.text.len |->
                                                     S[st.text.beg + i]]])
               ELSE IF k = VT_TOKEN_KIND_CTRL /\ c \in {0, 9, 13}
               THEN Key(st, it1, c, 0)
               ELSE IF k = VT_TOKEN_KIND_CTRL /\ c >= 1 /\ c <= 26
               THEN Key(st, it1, c + 64, KEYBOARD_MODIFIER_CTRL)
               ELSE IF k = VT_TOKEN_KIND_CTRL /\ c = 127
               THEN Key(st, it1, VK_BACK, 0)
               ELSE IF k = VT_TOKEN_KIND_ESC /\ st.esc >= 32 /\ st.esc <= 126
               THEN Key(st, it1, st.esc, KEYBOARD_MODIFIER_ALT)
               ELSE IF k = VT_TOKEN_KIND_SS3 /\ st.ss3 >= 80 /\ st.ss3 <= 83
               THEN Key(st, it1, st.ss3 - 80 + VK_F1, 0)
               ELSE IF k = VT_TOKEN_KIND_CSI /\ f <= 72
               THEN CsiKey(st, it1, LutFinal(f - 65))
               ELSE IF k = VT_TOKEN_KIND_CSI /\ f = 126 /\ st.csi.params[0] <= 35
               THEN CsiKey(st, it1, LutTilde(st.csi.params[0]))
               ELSE IF k = VT_TOKEN_KIND_CSI /\ f \in {109, 77}
                       /\ st.csi.private_byte = 60
               THEN Mouse(st, it1, st.csi.params[0])
               ELSE IF k = VT_TOKEN_KIND_CSI /\ f = 116 /\ st.csi.params[0] = 8
               THEN Done(st, it1,
                         [UiInputZero EXCEPT
                              !.type = UI_INPUT_RESIZE,
                              !.resize = [width |-> max_i32(st.csi.params[2], 1),
                                          height |-> max_i32(st.csi.params[1], 1)]])
               ELSE get_next_ui_input(st, S, it1, end, build, oob)
        Parsed(r) == Token(r.state, r.it)
    IN IF it = end THEN ParseModifiers(state, it, UiInputZero)
       ELSE Parsed(vt_parse_next_token(state, S, it, end, build))

\* The reading side of main(): S is what stdin will deliver in total, the
\* buffer of the current os_read_stdin is S[it+1 .. end] (the first one
\* delivers cut bytes), and toks are the tokens reported so far.  input is
\* the event the last get_next_ui_input returned, size the size the UI context has stored,
\* done says that the last pass over the current buffer is over.  tok is where the token in progress began
\* and the parser state there.
VtStart(S, cut, build) ==
    [S |-> S, cut |-> cut, build |-> build, state |-> VtParserStateZero,
     it |-> 0, end |-> cut, toks |-> <<>>,
     tok |-> [beg |-> 0, state |-> VtParserStateZero],
     oob |-> 0, input |-> UiInputZero, size |-> UiInputZero.resize,
     done |-> FALSE]

VtIdle == VtStart(<<>>, 0, "alias")

\* ---------------------------------------------------------------- UI, nodes
\* A u32 colour 0xAABBGGRR is kept as <<alpha, bgr>>: the top byte and the
\* low 24 bits.  The plain numbers 0 and 15 that ui_root_render puts into
\* the bitmaps are <<0, 0>> and <<0, 15>>.
Size(w, h) == [width |-> w, height |-> h]
Rect(l, t, r, b) == [left |-> l, top |-> t, right |-> r, bottom |-> b]

rect_is_empty(rect) == rect.left >= rect.right \/ rect.top >= rect.bottom

rect_contains(rect, point) ==
    /\ point.x >= rect.left /\ point.x < rect.right
    /\ point.y >= rect.top /\ point.y < rect.bottom

rect_intersect(lhs, rhs) ==
    LET l == max_i32(lhs.left, rhs.left)
        t == max_i32(lhs.top, rhs.top)
        r == min_i32(lhs.right, rhs.right)
        b == min_i32(lhs.bottom, rhs.bottom)
    IN Rect(l, t, max_i32(l, r), max_i32(t, b))

\* u32 indexed_colors[16] of main(), the colours used until the terminal
\* answers the palette query.
indexed_colors ==
    [i \in 0..15 |->
        <<255, <<0, 2174142, 3845695, 4889278, 12471584, 12473531, 11708160,
                 12500670, 8421504, 3161855, 5368408, 4508159, 16738863,
                 16741628, 15786240, 16777215>>[i + 1]>>]

\* hash_s8(seed, str): a node id is the hash of its name seeded with the
\* id of its parent.  The 64-bit value is kept as the path of names it was
\* made from, so that equal names under one parent collide as in the code
\* and nothing else does.  The id of the root node, 0x0123456789abcdef, is
\* the empty path.
hash_s8(seed, str) == Append(seed, str)

\* struct UiNode after arena_zalloc.  Pointers are positions in the node
\* sequence of the context the node was allocated in; NULL is no node.
\* gravity is kept in halves (gravity_x = 0.5f is 1).
UiNodeZero ==
    [stack_parent |-> NULL, id |-> <<>>, parent |-> NULL,
     child_first |-> NULL, child_last |-> NULL,
     sibling_prev |-> NULL, sibling_next |-> NULL,
     attributes |-> [float_spec |-> [gravity_x |-> 0, gravity_y |-> 0,
                                     offset_x |-> 0, offset_y |-> 0],
                     padding |-> Rect(0, 0, 0, 0), grid_columns |-> <<>>,
                     bg |-> <<0, 0>>, fg |-> <<0, 0>>,
                     floating |-> FALSE, bordered |-> FALSE],
     content_type |-> UI_NODE_CONTAINER,
     content |-> [text |-> <<>>, scrollarea |-> Point(0, 0)],
     intrinsic_size |-> Size(0, 0), intrinsic_size_set |-> FALSE,
     outer |-> Rect(0, 0, 0, 0), inner |-> Rect(0, 0, 0, 0),
     outer_clipped |-> Rect(0, 0, 0, 0), inner_clipped |-> Rect(0, 0, 0, 0)]

\* ui_root_create: a context without nodes.  nodes is the arena of the
\* context; hang is set when a walk over its trees does not return.
\* A context whose two arenas are one arena.
ui_root_create_shared ==
    [size |-> Size(0, 0), input_text |-> <<>>,
     input_keyboard |-> [key |-> 0, modifiers |-> 0],
     input_mouse_action |-> MOUSE_ACTION_NONE,
     input_mouse_position |-> Point(-1, -1),
     input_scroll_delta |-> Point(0, 0), input_consumed |-> FALSE,
     focused_item_id |-> <<>>,
     root_first |-> NULL, root_last |-> NULL, attr_node |-> NULL,
     parent |-> NULL, node_count |-> 0, autofocus_next |-> FALSE,
     node_map |-> <<>>, finalized |-> FALSE, nodes |-> <<>>, hang |-> FALSE,
     arena |-> 1, arena_prev |-> 1]

ui_root_create ==
    [size |-> Size(0, 0), input_text |-> <<>>,
     input_keyboard |-> [key |-> 0, modifiers |-> 0],
     input_mouse_action |-> MOUSE_ACTION_NONE,
     input_mouse_position |-> Point(-1, -1),
     input_scroll_delta |-> Point(0, 0), input_consumed |-> FALSE,
     focused_item_id |-> <<>>,
     root_first |-> NULL, root_last |-> NULL, attr_node |-> NULL,
     parent |-> NULL, node_count |-> 0, autofocus_next |-> FALSE,
     node_map |-> <<>>, finalized |-> FALSE, nodes |-> <<>>, hang |-> FALSE,
     arena |-> 1, arena_prev |-> 2]

ui_node_append_child(N, parent, child) ==
    LET last == N[parent].child_last
        Last(N3) == [N3 EXCEPT ![parent].child_last = child]
        First(N2) == Last(IF N2[parent].child_first = NULL
                          THEN [N2 EXCEPT ![parent].child_first = child] ELSE N2)
        Next(N1) == First(IF last # NULL THEN [N1 EXCEPT ![last].sibling_next = child]
                          ELSE N1)
    IN Next([N EXCEPT ![child].parent = parent, ![child].sibling_prev = last])

ui_node_remove(N, child) ==
    LET parent == N[child].parent
        prev == N[child].sibling_prev
        next == N[child].sibling_next
        Unlink(N4) == [N4 EXCEPT ![child].parent = NULL, ![child].sibling_prev = NULL,
                                 ![child].sibling_next = NULL]
        Last(N3) == Unlink(IF N3[parent].child_last = child
                           THEN [N3 EXCEPT ![parent].child_last = prev] ELSE N3)
        First(N2) == Last(IF N2[parent].child_first = child
                          THEN [N2 EXCEPT ![parent].child_first = next] ELSE N2)
        Next(N1) == First(IF next # NULL THEN [N1 EXCEPT ![next].sibling_prev = prev]
                          ELSE N1)
    IN Next(IF prev # NULL THEN [N EXCEPT ![prev].sibling_next = next] ELSE N)

outer_to_inner(node, outer) ==
    LET l == IF node.attributes.bordered THEN 1 ELSE 0
        r == IF node.attributes.bordered \/ node.content_type = UI_NODE_SCROLLAREA
             THEN 1 ELSE 0
    IN Rect(outer.left + node.attributes.padding.left + l,
            outer.top + node.attributes.padding.top + l,
            outer.right - (node.attributes.padding.right + r),
            outer.bottom - (node.attributes.padding.bottom + l))

intrinsic_to_outer(node) ==
    LET l == IF node.attributes.bordered THEN 1 ELSE 0
        r == IF node.attributes.bordered \/ node.content_type = UI_NODE_SCROLLAREA
             THEN 1 ELSE 0
    IN Size(node.intrinsic_size.width + node.attributes.padding.left
                + node.attributes.padding.right + l + r,
            node.intrinsic_size.height + node.attributes.padding.top
                + node.attributes.padding.bottom + l + l)

\* The children of a node, first to last: child_first, then sibling_next
\* until it is NULL.
RECURSIVE Siblings(_, _)
Siblings(N, child) ==
    IF child = NULL THEN <<>> ELSE <<child>> \o Siblings(N, N[child].sibling_next)

RECURSIVE ui_compute_intrinsic_size(_, _)
ui_compute_intrinsic_size(N, node) ==
    IF N[node].intrinsic_size_set THEN N
    ELSE
    LET columns == IF N[node].attributes.grid_columns = <<>> THEN <<-1>>
                   ELSE N[node].attributes.grid_columns
        RECURSIVE Loop(_, _, _, _, _)
        Loop(M, child, column, row_size, total_size) ==
            IF child = NULL
            THEN [M EXCEPT ![node].intrinsic_size =
                               Size(max_i32(total_size.width, row_size.width),
                                    total_size.height + row_size.height),
                           ![node].intrinsic_size_set = TRUE]
            ELSE
            LET M1 == ui_compute_intrinsic_size(M, child)
                size == intrinsic_to_outer(M1[child])
                row == Size(row_size.width + max_i32(size.width, columns[column + 1]),
                            max_i32(row_size.height, size.height))
            IN IF column + 1 >= Len(columns)
               THEN Loop(M1, M1[child].sibling_next, 0, Size(0, 0),
                         Size(max_i32(total_size.width, row.width),
                              total_size.height + row.height))
               ELSE Loop(M1, M1[child].sibling_next, column + 1, row, total_size)
    IN Loop(N, N[node].child_first, 0, Size(0, 0), Size(0, 0))

\* ui_layout_children has three parts.  ui_layout_scrollarea is the branch
\* of a scroll area: its one child gets the size of the content and is
\* moved by the scroll offset, which is clamped here.
ui_layout_scrollarea(N, node) ==
    LET child == N[node].child_first
        inner == N[node].inner
        \* scrollarea size
        sx == inner.right - inner.left
        sy == inner.bottom - inner.top
        \* content size
        cx == max_i32(N[child].intrinsic_size.width, sx)
        cy == max_i32(N[child].intrinsic_size.height, sy)
        \* offset
        ox == clamp_i32(N[node].content.scrollarea.x, 0, cx - sx)
        oy == clamp_i32(N[node].content.scrollarea.y, 0, cy - sy)
        outer == Rect(inner.left - ox, inner.top - oy,
                      inner.left - ox + cx, inner.top - oy + cy)
    IN [N EXCEPT ![child].outer = outer,
                 ![child].inner = outer_to_inner(N[child], outer),
                 ![child].outer_clipped = rect_intersect(outer, N[node].inner_clipped),
                 ![child].inner_clipped =
                     rect_intersect(outer_to_inner(N[child], outer),
                                    N[node].inner_clipped),
                 ![node].content.scrollarea = Point(ox, oy)]

\* The widths of the grid columns of a node whose columns are columns0 and
\* whose children are children: a positive width is taken as it is, a
\* negative one is a share of what the positive ones leave, and both that
\* and a width of 0 are at least as wide as the widest child of the
\* column.  (CoordType)((f64)width * fr_scale + 0.5) is computed in
\* integers: the value is not negative, and the doubles are exact on the
\* sizes drawn.
ui_layout_columns(N, node, columns0, children) ==
    LET len == Len(columns0)
        RECURSIVE Widest(_)
        Widest(k) ==
            IF k > Len(children) THEN 0
            ELSE max_i32(intrinsic_to_outer(N[children[k]]).width, Widest(k + len))
        RECURSIVE Sum(_, _)
        Sum(i, neg) ==
            IF i > len THEN 0
            ELSE (IF neg THEN min_i32(columns0[i], 0) ELSE max_i32(columns0[i], 0))
                 + Sum(i + 1, neg)
        remaining == max_i32((N[node].inner.right - N[node].inner.left)
                                 - Sum(1, FALSE), 0)
        fr(width) == (2 * (-width) * remaining + (-Sum(1, TRUE)))
                         \div (2 * (-Sum(1, TRUE)))
    IN [i \in 1..len |->
           IF columns0[i] > 0 THEN columns0[i]
           ELSE IF columns0[i] < 0 THEN max_i32(Widest(i), fr(columns0[i]))
           ELSE Widest(i)]

\* The loop that places the children from the k-th on in the columns, row
\* by row, from (x, y) on.
RECURSIVE ui_layout_place(_, _, _, _, _, _, _, _, _, _)
ui_layout_place(M, node, clip, columns, children, k, x, y, row_height, column) ==
    IF k > Len(children) THEN M
    ELSE
    LET child == children[k]
        size == Size(columns[column + 1], intrinsic_to_outer(M[child]).height)
        outer == rect_intersect(Rect(x, y, x + size.width, y + size.height),
                                M[node].inner)
        last == column + 1 >= Len(columns)
    IN ui_layout_place([M EXCEPT ![child].outer = outer,
                                 ![child].inner = outer_to_inner(M[child], outer),
                                 ![child].outer_clipped = rect_intersect(outer, clip),
                                 ![child].inner_clipped =
                                     rect_intersect(outer_to_inner(M[child], outer),
                                                    clip)],
                       node, clip, columns, children, k + 1,
                       IF last THEN M[node].inner.left ELSE x + size.width,
                       IF last THEN y + max_i32(row_height, size.height) ELSE y,
                       IF last THEN 0 ELSE max_i32(row_height, size.height),
                       IF last THEN 0 ELSE column + 1)

\* clip is the outer rectangle of the root the node belongs to.  The new
\* column widths are stored into the grid_columns of the node, as in the
\* code (columns.beg points at them); the default column is a local.
RECURSIVE ui_layout_children(_, _, _)
ui_layout_grid(N, node, clip, columns, children) ==
    LET RECURSIVE Recurse(_, _)
        Recurse(M, k) ==
            IF k > Len(children) THEN M
            ELSE Recurse(ui_layout_children(M, children[k], clip), k + 1)
    IN Recurse(ui_layout_place(IF N[node].attributes.grid_columns # <<>>
                               THEN [N EXCEPT ![node].attributes.grid_columns = columns]
                               ELSE N,
                               node, clip, columns, children, 1,
                               N[node].inner.left, N[node].inner.top, 0, 0),
               1)

ui_layout_children(N, node, clip) ==
    IF N[node].child_first = NULL THEN N
    ELSE IF rect_is_empty(N[node].inner) THEN N
    ELSE IF N[node].content_type = UI_NODE_SCROLLAREA THEN ui_layout_scrollarea(N, node)
    ELSE ui_layout_grid(N, node, clip,
                        ui_layout_columns(N, node,
                                          IF N[node].attributes.grid_columns # <<>>
                                          THEN N[node].attributes.grid_columns
                                          ELSE <<-1>>,
                                          Siblings(N, N[node].child_first)),
                        Siblings(N, N[node].child_first))
\* The walk over the trees of a context that ui_root_finalize and
\* ui_root_reset share: every root of the sibling_next chain from
\* root_first, each walked in pre-order with the parent pointers.  order is
\* the sequence of the nodes visited.  hang is set when the walk of a root
\* comes to a node a second time, from where it repeats for ever, or steps
\* to the parent of a node that has none and reads through NULL.  Up is the
\* inner while loop: the node to go on with, 0 when the walk is back at the
\* root, NULL when it left the tree.
RECURSIVE PreOrder(_, _, _, _, _)
\* A walk that looks at the roots only.
PreOrder_roots(N, root, node, seen, order) ==
    [order |-> Siblings(N, root), hang |-> FALSE]

PreOrder(N, root, node, seen, order) ==
    LET RECURSIVE Up(_)
        \* while (!node->sibling_next) { node = node->parent; ... }
        Up(n) == IF n = NULL THEN NULL
                 ELSE IF N[n].sibling_next # NULL THEN N[n].sibling_next
                 ELSE IF N[n].parent = root THEN 0
                 ELSE Up(N[n].parent)
        next == IF N[node].child_first # NULL THEN N[node].child_first ELSE Up(node)
        NextRoot == IF N[root].sibling_next = NULL
                    THEN [order |-> Append(order, node), hang |-> FALSE]
                    ELSE PreOrder(N, N[root].sibling_next, N[root].sibling_next,
                                  {}, Append(order, node))
    IN IF root = NULL THEN [order |-> order, hang |-> FALSE]
       ELSE IF node \in seen \/ next = NULL
       THEN [order |-> Append(order, node), hang |-> TRUE]
       ELSE IF next = 0 THEN NextRoot
       ELSE PreOrder(N, root, next, seen \cup {node}, Append(order, node))

\* The table behind the node map, on ids of IdBits bits in place of the 64
\* of the code.  os_bit_width_u64(val) is the position of the highest set
\* bit plus one, 0 for 0.
RECURSIVE os_bit_width_u64(_)
os_bit_width_u64(val) == IF val = 0 THEN 0 ELSE 1 + os_bit_width_u64(val \div 2)

\* id >> shift.  A shift by the whole width of the type, which the frame
\* without nodes asks for, is undefined: wide is what it yields, the value
\* unshifted ("wrap", the shift count taken modulo the width) or 0.
node_map_slot(id, shift, wide) ==
    IF shift >= IdBits THEN (IF wide = "wrap" THEN id ELSE 0)
    ELSE id \div (2 ^ shift)

\* A fill that starts every probe at slot 0 and a lookup that starts at
\* the slot of the id.
node_map_fill_front(ids, wide) ==
    LET width == os_bit_width_u64(4 * Len(ids))
        mask == (2 ^ width) - 1
    IN [shift |-> IdBits - width, mask |-> mask, wide |-> wide,
        slots |-> [slot \in 0..mask |-> IF slot < Len(ids) THEN slot + 1 ELSE NULL]]

\* The first block of ui_root_finalize on the nodes 1..Len(ids) in the
\* order of the walk, ids[n] the id of node n: the table with its shift
\* and mask, every node put into the first free slot from id >> shift on.
node_map_fill(ids, wide) ==
    LET width == os_bit_width_u64(4 * Len(ids))
        shift == IdBits - width
        mask == (2 ^ width) - 1
        RECURSIVE Probe(_, _)
        Probe(slots, slot) == IF slots[slot] = NULL THEN slot
                              ELSE Probe(slots, (slot + 1) % (mask + 1))
        RECURSIVE Fill(_, _)
        Fill(slots, node) ==
            IF node > Len(ids) THEN slots
            ELSE Fill([slots EXCEPT
                          ![Probe(slots, node_map_slot(ids[node], shift, wide))] = node],
                      node + 1)
    IN [shift |-> shift, mask |-> mask, wide |-> wide,
        slots |-> Fill([slot \in 0..mask |-> NULL], 1)]

\* get_prev_node on that table: the node found, NULL at a free slot, and
\* NULL - 1 when the probe has been at every slot, from where it goes round
\* for ever.
node_map_find(map, ids, id) ==
    LET RECURSIVE Probe(_, _)
        Probe(slot, steps) ==
            IF steps > map.mask THEN NULL - 1
            ELSE IF map.slots[slot] = NULL THEN NULL
            ELSE IF ids[map.slots[slot]] = id THEN map.slots[slot]
            ELSE Probe((slot + 1) % (map.mask + 1), steps + 1)
    IN Probe(node_map_slot(id, map.shift, map.wide) % (map.mask + 1), 0)

\* The node map is kept as the order in which ui_root_finalize inserted
\* the nodes.  Nodes of one id start probing at one slot and sit behind one
\* another in the order of insertion, so the lookup returns the first of
\* them.
get_prev_node(prev, id) ==
    LET hits == SelectSeq(prev.node_map, LAMBDA n : prev.nodes[n].id = id)
    IN IF hits = <<>> THEN NULL ELSE hits[1]

ui_root_finalize(c) ==
    IF c.finalized THEN c
    ELSE
    LET map == PreOrder(c.nodes, c.root_first, c.root_first, {}, <<>>)
        roots == Siblings(c.nodes, c.root_first)
        root == c.root_first
        outer == Rect(0, 0, c.size.width, c.size.height)
        RECURSIVE Intrinsic(_, _)
        Intrinsic(N, k) ==
            IF k > Len(roots) THEN N
            ELSE Intrinsic(ui_compute_intrinsic_size(N, roots[k]), k + 1)
        Root(N) == [N EXCEPT ![root].outer = outer,
                             ![root].inner = outer_to_inner(N[root], outer),
                             ![root].outer_clipped = outer,
                             ![root].inner_clipped = outer_to_inner(N[root], outer)]
        \* (CoordType)(gravity * (f32)size + 0.5f), gravity in halves
        Gravity(g, size) == IF g * size + 1 >= 0 THEN (g * size + 1) \div 2
                            ELSE -((-(g * size + 1)) \div 2)
        RECURSIVE Floaters(_, _)
        Floaters(N, k) ==
            IF k > Len(roots) THEN N
            ELSE
            LET child == roots[k]
                size == intrinsic_to_outer(N[child])
                spec == N[child].attributes.float_spec
                x == N[N[child].parent].outer.left + spec.offset_x
                         - Gravity(spec.gravity_x, size.width)
                y == N[N[child].parent].outer.top + spec.offset_y
                         - Gravity(spec.gravity_y, size.height)
                o == Rect(x, y, x + size.width, y + size.height)
            IN Floaters(ui_layout_children(
                            [N EXCEPT ![child].outer = o,
                                      ![child].inner = outer_to_inner(N[child], o),
                                      ![child].outer_clipped =
                                          rect_intersect(o, N[root].inner_clipped),
                                      ![child].inner_clipped =
                                          rect_intersect(o, N[root].inner_clipped)],
                            child, o),
                        k + 1)
    IN IF map.hang THEN [c EXCEPT !.hang = TRUE]
       ELSE [c EXCEPT !.nodes = IF root = NULL THEN Intrinsic(c.nodes, 1)
                                ELSE Floaters(ui_layout_children(
                                                  Root(Intrinsic(c.nodes, 1)),
                                                  root, outer),
                                              2),
                      !.node_map = map.order, !.finalized = TRUE]

\* ui_root_reset(prev, input): the finalized previous context and the new
\* one.  The new context is zeroed but for what is copied.
ui_root_reset(prev0, input) ==
    LET root_node == [UiNodeZero EXCEPT !.attributes.bg = indexed_colors[0],
                                        !.attributes.fg = indexed_colors[15]]
        pos == input.mouse.position
        Reset(prev) ==
            LET ctx == [ui_root_create EXCEPT
                           !.size = prev.size,
                           !.input_mouse_position = prev.input_mouse_position,
                           !.focused_item_id = prev.focused_item_id,
                           !.root_first = 1, !.root_last = 1, !.attr_node = 1,
                           !.parent = 1, !.node_count = 1, !.nodes = <<root_node>>,
                           !.arena = prev.arena_prev, !.arena_prev = prev.arena]
                mouse_action ==
                    IF /\ prev.input_mouse_action >= MOUSE_ACTION_LEFT
                       /\ prev.input_mouse_action <= MOUSE_ACTION_RIGHT
                       /\ input.mouse.action = MOUSE_ACTION_NONE
                    THEN MOUSE_ACTION_RELEASE ELSE input.mouse.action
                Mouse(walk, best) ==
                    [ctx EXCEPT
                        !.input_mouse_action = mouse_action,
                        !.input_mouse_position = pos,
                        !.input_scroll_delta = input.mouse.scroll,
                        !.focused_item_id =
                            IF best # NULL /\ mouse_action = MOUSE_ACTION_LEFT
                            THEN prev.nodes[best].id ELSE @,
                        !.hang = walk.hang]
                Inside(walk, inside) ==
                    Mouse(walk, IF inside = <<>> THEN NULL ELSE inside[Len(inside)])
                Walked(walk) ==
                    Inside(walk,
                           SelectSeq(walk.order,
                                     LAMBDA n : rect_contains(prev.nodes[n].inner_clipped,
                                                              pos)))
                Made(new) ==
                    [prev |-> prev,
                     ctx |-> IF prev.hang THEN [new EXCEPT !.hang = TRUE] ELSE new]
            IN Made(CASE input.type = UI_INPUT_NONE ->
                             [ctx EXCEPT !.input_mouse_action = prev.input_mouse_action,
                                         !.input_consumed = TRUE]
                      [] input.type = UI_INPUT_RESIZE -> [ctx EXCEPT !.size = input.resize]
                      [] input.type = UI_INPUT_TEXT -> [ctx EXCEPT !.input_text = input.text]
                      [] input.type = UI_INPUT_KEYBOARD ->
                             [ctx EXCEPT !.input_keyboard = input.keyboard]
                      [] input.type = UI_INPUT_MOUSE ->
                             Walked(PreOrder(prev.nodes, prev.root_first, prev.root_first,
                                             {}, <<>>)))
    IN Reset(ui_root_finalize(prev0))

\* ---------------------------------------------------------- UI, building
ui_container_begin(c, id) ==
    LET parent == c.parent
        node == Len(c.nodes) + 1
        Begun(c1) ==
            IF c.autofocus_next
            THEN [c1 EXCEPT !.autofocus_next = FALSE,
                            !.focused_item_id =
                                IF @ = c.nodes[parent].id THEN id ELSE @]
            ELSE c1
    IN Begun([c EXCEPT !.nodes = ui_node_append_child(
                                     Append(c.nodes,
                                            [UiNodeZero EXCEPT !.stack_parent = parent,
                                                               !.id = id]),
                                     parent, node),
                       !.attr_node = node, !.parent = node, !.node_count = @ + 1])

ui_container_begin_named(c, id) ==
    ui_container_begin(c, hash_s8(c.nodes[c.parent].id, id))

\* A ui_container_end that leaves the request of ui_focus_next_by_default
\* standing.
ui_container_end_keep(c) ==
    [c EXCEPT !.attr_node = c.parent,
              !.parent = c.nodes[c.parent].stack_parent]

ui_container_end(c) ==
    [c EXCEPT !.attr_node = c.parent,
              !.parent = c.nodes[c.parent].stack_parent,
              !.autofocus_next = FALSE]

\* gravity_x and gravity_y of spec are in halves and already within [0, 1].
ui_attr_float(c, spec) ==
    LET node == c.attr_node
        parent == c.nodes[node].parent
        Floating(N) ==
            [c EXCEPT !.nodes = [N EXCEPT ![node].parent = parent,
                                          ![node].sibling_prev = c.root_last,
                                          ![c.root_last].sibling_next = node,
                                          ![node].attributes.float_spec = spec,
                                          ![node].attributes.floating = TRUE],
                      !.root_last = node]
    IN Floating(ui_node_remove(c.nodes, node))

ui_attr_border(c) == [c EXCEPT !.nodes[c.attr_node].attributes.bordered = TRUE]

ui_attr_padding(c, padding) ==
    [c EXCEPT !.nodes[c.attr_node].attributes.padding =
                  Rect(max_i32(padding.left, 0), max_i32(padding.top, 0),
                       max_i32(padding.right, 0), max_i32(padding.bottom, 0))]

ui_attr_grid_columns(c, columns) ==
    [c EXCEPT !.nodes[c.attr_node].attributes.grid_columns = columns]

ui_attr_background_rgba(c, bg) ==
    [c EXCEPT !.nodes[c.attr_node].attributes.bg = bg]

ui_attr_foreground_rgba(c, fg) ==
    [c EXCEPT !.nodes[c.attr_node].attributes.fg = fg]

\* bg & 15
ui_attr_background_indexed(c, bg) ==
    [c EXCEPT !.nodes[c.attr_node].attributes.bg = indexed_colors[bg % 16]]

\* fg & 16 is 0 or 16.  indexed_colors[16] is the word behind the array,
\* which in the declared layout of UiContext is size.width.
ui_attr_foreground_indexed(c, fg) ==
    LET index == ((fg \div 16) % 2) * 16
    IN [c EXCEPT !.nodes[c.attr_node].attributes.fg =
                     IF index < 16 THEN indexed_colors[index]
                     ELSE <<c.size.width \div 16777216, c.size.width % 16777216>>]

ui_focus_next_by_default(c) == [c EXCEPT !.autofocus_next = TRUE]

\* A shortcut test that leaves the input as it is.
ui_consume_shortcut_kept(c, shortcut) ==
    [ctx |-> c,
     ret |-> /\ ~c.input_consumed
             /\ c.input_keyboard.key = shortcut % 256
             /\ c.input_keyboard.modifiers = (shortcut \div 16777216) * 16777216]

\* ui_consume_shortcut: the context after the call and the value returned.
\* shortcut & 0xff is the key, shortcut & 0xff000000 the modifiers.
ui_consume_shortcut(c, shortcut) ==
    IF /\ ~c.input_consumed
       /\ c.input_keyboard.key = shortcut % 256
       /\ c.input_keyboard.modifiers = (shortcut \div 16777216) * 16777216
    THEN [ctx |-> [c EXCEPT !.input_consumed = TRUE], ret |-> TRUE]
    ELSE [ctx |-> c, ret |-> FALSE]

\* The mouse action of the context, consumed or not.
ui_input_mouse_stored(c) == c.input_mouse_action

ui_input_mouse(c) ==
    IF c.input_consumed THEN MOUSE_ACTION_NONE ELSE c.input_mouse_action

ui_is_hovering(prev, c) ==
    LET node == get_prev_node(prev, c.nodes[c.attr_node].id)
    IN node # NULL /\ rect_contains(prev.nodes[node].outer, c.input_mouse_position)

ui_has_focus(c) == c.nodes[c.attr_node].id = c.focused_item_id

ui_was_clicked(c) == ui_has_focus(c) /\ ui_input_mouse(c) = MOUSE_ACTION_RELEASE

\* The text of a label is the list of its chunks, each a text in one
\* foreground; the texts are ASCII, one column a byte.
ui_styled_label_begin(c, id) ==
    LET Text(c1) ==
            [c1 EXCEPT !.nodes[c1.attr_node].content_type = UI_NODE_TEXT,
                       !.nodes[c1.attr_node].content.text = <<[text |-> <<>>, fg |-> 0]>>]
    IN Text(ui_container_begin_named(c, id))

ui_styled_label_set_foreground_indexed(c, fg) ==
    LET chunks == c.nodes[c.attr_node].content.text
        last == chunks[Len(chunks)]
    IN IF last.text = <<>>
       THEN [c EXCEPT !.nodes[c.attr_node].content.text[Len(chunks)].fg = fg]
       ELSE IF last.fg # fg
       THEN [c EXCEPT !.nodes[c.attr_node].content.text =
                          Append(@, [text |-> <<>>, fg |-> fg])]
       ELSE c

ui_styled_label_add_text(c, text) ==
    LET chunks == c.nodes[c.attr_node].content.text
    IN [c EXCEPT !.nodes[c.attr_node].content.text[Len(chunks)].text = @ \o text]

ui_styled_label_end(c) ==
    LET chunks == c.nodes[c.attr_node].content.text
        RECURSIVE Width(_)
        Width(k) == IF k = 0 THEN 0 ELSE Width(k - 1) + Len(chunks[k].text)
    IN ui_container_end(
           [c EXCEPT !.nodes[c.attr_node].intrinsic_size = Size(Width(Len(chunks)), 1),
                     !.nodes[c.attr_node].intrinsic_size_set = TRUE])

ui_label(c, text) ==
    ui_styled_label_end(ui_styled_label_add_text(ui_styled_label_begin(c, text), text))

\* ui_button: the context and what ui_was_clicked returned.
ui_button(c, text) ==
    LET Clicked(c2) == [ctx |-> c2, ret |-> ui_was_clicked(c2)]
        Focus(c1) ==
            Clicked(IF ui_has_focus(c1)
                    THEN ui_attr_foreground_rgba(
                             ui_attr_background_rgba(c1, <<160, 0>>), <<255, 16777215>>)
                    ELSE c1)
    IN Focus(ui_attr_foreground_rgba(
                 ui_attr_background_rgba(ui_label(c, text), <<160, 16777215>>),
                 <<255, 0>>))

\* S("inner") is <<105, 110, 110, 101, 114>>.
ui_scrollarea_begin(prev, c, name, intrinsic_size) ==
    LET Inner(c4, outer) ==
            [ui_container_begin_named(
                 ui_focus_next_by_default(
                     [c4 EXCEPT !.nodes[outer].content_type = UI_NODE_SCROLLAREA]),
                 <<105, 110, 110, 101, 114>>)
                EXCEPT !.attr_node = outer]
        Sized(c2, outer) ==
            Inner(IF intrinsic_size.width > 0 \/ intrinsic_size.height > 0
                  THEN [c2 EXCEPT !.nodes[outer].intrinsic_size = intrinsic_size,
                                  !.nodes[outer].intrinsic_size_set = TRUE]
                  ELSE c2,
                  outer)
        Kept(c1, outer, outer_prev) ==
            Sized(IF outer_prev = NULL THEN c1
                  ELSE [c1 EXCEPT !.nodes[outer].content.scrollarea =
                                      prev.nodes[outer_prev].content.scrollarea],
                  outer)
        Outer(c1) ==
            Kept(c1, c1.attr_node, get_prev_node(prev, c1.nodes[c1.attr_node].id))
    IN Outer(ui_container_begin_named(c, name))

ui_scrollarea_end(prev, c) ==
    LET Ended(c1) ==
            IF ui_is_hovering(prev, c1) /\ ui_input_mouse(c1) = MOUSE_ACTION_SCROLL
            THEN [c1 EXCEPT !.nodes[c1.attr_node].content.scrollarea =
                                Point(@.x + c.input_scroll_delta.x,
                                      @.y + c.input_scroll_delta.y)]
            ELSE c1
    IN Ended(ui_container_end(ui_container_end(c)))

\* ui_textarea_handle_input on the context whose attr_node is the outer and
\* whose parent is the inner node of the text area: the context after it
\* and the calls made on the text buffer.  Of the keys of the switch only
\* Ctrl+Up and Ctrl+Down are drawn, which scroll and leave the cursor
\* alone; a key that is not in the switch returns.
ui_textarea_handle_input(prev, c) ==
    LET outer == c.attr_node
        pos == c.input_mouse_position
        consumed == [c EXCEPT !.input_consumed = TRUE]
        Scroll(d) == [consumed EXCEPT !.nodes[outer].content.scrollarea.y = @ + d]
        Handle(outer_prev, inner_prev) ==
            IF outer_prev = NULL \/ inner_prev = NULL \/ c.input_consumed
            THEN [ctx |-> c, calls |-> <<>>]
            ELSE IF c.input_text # <<>>
            THEN [ctx |-> consumed, calls |-> <<<<"text_buffer_write", c.input_text>>>>]
            ELSE IF c.input_mouse_action # MOUSE_ACTION_NONE
            THEN IF \/ c.input_mouse_action
                          \notin {MOUSE_ACTION_LEFT, MOUSE_ACTION_RELEASE}
                    \/ ~rect_contains(prev.nodes[outer_prev].inner, pos)
                 THEN [ctx |-> c, calls |-> <<>>]
                 ELSE [ctx |-> consumed,
                       calls |-> <<<<IF c.input_mouse_action = MOUSE_ACTION_LEFT
                                     THEN "text_buffer_selection_update"
                                     ELSE "text_buffer_selection_end",
                                     Point(pos.x - prev.nodes[inner_prev].outer.left,
                                           pos.y - prev.nodes[inner_prev].outer.top)>>>>]
            ELSE IF /\ c.input_keyboard.key \in {VK_UP, VK_DOWN}
                    /\ c.input_keyboard.modifiers = KEYBOARD_MODIFIER_CTRL
            THEN [ctx |-> Scroll(IF c.input_keyboard.key = VK_UP THEN -1 ELSE 1),
                  calls |-> <<>>]
            ELSE [ctx |-> c, calls |-> <<>>]
    IN Handle(get_prev_node(prev, c.nodes[outer].id),
              get_prev_node(prev, c.nodes[c.parent].id))

\* ui_textarea for a document of that many lines.  The name of the scroll
\* area is the id of the parent.
ui_textarea(prev, c, lines, intrinsic_size) ==
    LET Ended(reflow, handled) ==
            [ctx |-> ui_scrollarea_end(prev, handled.ctx),
             calls |-> reflow \o handled.calls]
        Reflowed(c2, inner, inner_prev) ==
            Ended(IF inner_prev = NULL THEN <<>>
                  ELSE <<<<"text_buffer_reflow",
                           prev.nodes[inner_prev].inner.right
                               - prev.nodes[inner_prev].inner.left>>>>,
                  IF c2.nodes[inner].id = c2.focused_item_id
                  THEN ui_textarea_handle_input(prev, c2)
                  ELSE [ctx |-> c2, calls |-> <<>>])
        Inner(c2, inner) == Reflowed(c2, inner, get_prev_node(prev, c2.nodes[inner].id))
        Begun(c1) ==
            Inner([c1 EXCEPT !.nodes[c1.parent].content_type = UI_NODE_TEXTAREA,
                             !.nodes[c1.parent].intrinsic_size.height = lines,
                             !.nodes[c1.parent].intrinsic_size_set = TRUE],
                  c1.parent)
    IN Begun(ui_scrollarea_begin(prev, c, c.nodes[c.parent].id, intrinsic_size))

\* The label of a menu or of a menu item: the letter accelerator of the
\* text in the foreground 9, or behind the text in parentheses when the
\* text does not hold it.  c & ~0x20 takes bit 5 off the byte.
AcceleratorLabel(c, text, accelerator) ==
    LET Upper(ch) == IF (ch \div 32) % 2 = 1 THEN ch - 32 ELSE ch
        found == {i \in 1..Len(text) : Upper(text[i]) = accelerator}
        Fg(x, fg) == ui_styled_label_set_foreground_indexed(x, fg)
        Add(x, t) == ui_styled_label_add_text(x, t)
        Styled(c1, off) ==
            IF off < Len(text)
            THEN ui_styled_label_end(
                     Add(Fg(Add(Fg(Add(c1, SubSeq(text, 1, off)), 9),
                                SubSeq(text, off + 1, off + 1)), 0),
                         SubSeq(text, off + 2, Len(text))))
            ELSE ui_styled_label_end(
                     Add(Fg(Add(Fg(Add(Add(c1, text), <<40>>), 9), <<accelerator>>), 0),
                         <<41>>))
    IN IF accelerator < 65 \/ accelerator > 90 THEN ui_label(c, text)
       ELSE Styled(ui_styled_label_begin(c, text),
                   IF found = {} THEN Len(text)
                   ELSE (CHOOSE i \in found : \A j \in found : i <= j) - 1)

\* S("flyout") is <<102, 108, 121, 111, 117, 116>>.
ui_menubar_menu_begin(c, text, accelerator) ==
    LET Flyout(c3) ==
            ui_attr_foreground_indexed(
                ui_attr_background_indexed(
                    ui_attr_border(
                        ui_attr_grid_columns(
                            ui_attr_float(
                                ui_container_begin(
                                    c3, hash_s8(c3.nodes[c3.attr_node].id,
                                                <<102, 108, 121, 111, 117, 116>>)),
                                [gravity_x |-> 0, gravity_y |-> 0,
                                 offset_x |-> 0, offset_y |-> 1]),
                            <<0, 0>>)),
                    15),
                0)
        Label(c2) ==
            IF ui_has_focus(c2)
            THEN [ctx |-> Flyout(ui_attr_foreground_indexed(
                                     ui_attr_background_indexed(c2, 15), 0)),
                  ret |-> TRUE]
            ELSE [ctx |-> c2, ret |-> FALSE]
    IN Label(ui_attr_padding(
                 AcceleratorLabel(
                     [c EXCEPT !.nodes[c.parent].attributes.grid_columns = Append(@, 0)],
                     text, accelerator),
                 Rect(1, 0, 1, 0)))

\* The text of the shortcut: Ctrl+, Alt+, Shift+ and the letter.
ShortcutText(shortcut) ==
    (IF (shortcut \div KEYBOARD_MODIFIER_CTRL) % 2 = 1
     THEN <<67, 116, 114, 108, 43>> ELSE <<>>)
    \o (IF (shortcut \div KEYBOARD_MODIFIER_ALT) % 2 = 1
        THEN <<65, 108, 116, 43>> ELSE <<>>)
    \o (IF (shortcut \div KEYBOARD_MODIFIER_SHIFT) % 2 = 1
        THEN <<83, 104, 105, 102, 116, 43>> ELSE <<>>)
    \o <<shortcut % 256>>

\* hash(id, NULL, 0) is the id with an empty name added.
ui_menubar_menu_item(c, text, accelerator, shortcut) ==
    LET letter == shortcut % 256
        Clicked(c2) == [ctx |-> c2, ret |-> ui_was_clicked(c2)]
        Shortcut(c1) ==
            Clicked(IF letter >= 65 /\ letter <= 90
                    THEN ui_attr_padding(ui_label(c1, ShortcutText(shortcut)),
                                         Rect(2, 0, 0, 0))
                    ELSE ui_container_end(
                             ui_container_begin(
                                 c1, hash_s8(c1.nodes[c1.attr_node].id, <<>>))))
    IN Shortcut(AcceleratorLabel(c, text, accelerator))
\* --------------------------------------------------------- UI, rendering
\* A line is kept as its cells, one glyph of one column each: the labels
\* are ASCII, and the box and track glyphs are single columns.
\* ui_replace_text puts text at the columns [x1, x2) of the line, as far as
\* it reaches, and returns the line and the column behind the text; x1 is
\* within the line.
ui_replace_text(line, x1, x2, text) ==
    LET n == max_i32(min_i32(Len(text), x2 - x1), 0)
    IN [line |-> [x \in 1..Len(line) |->
                     IF x > x1 /\ x <= x1 + n THEN text[x - x1] ELSE line[x]],
        x |-> x1 + n]

\* alpha_blend_rect on a bitmap kept as rows of cells.  A colour that is
\* neither opaque nor transparent is blended with what is below it; the
\* blended bytes are not computed, the cell keeps the list of its layers,
\* the upper one first.
alpha_blend_rect(dst, src, rect) ==
    IF src[1] = 0 THEN dst
    ELSE [y \in 1..Len(dst) |->
             [x \in 1..Len(dst[y]) |->
                 IF /\ y > rect.top /\ y <= rect.bottom
                    /\ x > rect.left /\ x <= rect.right
                 THEN (IF src[1] = 255 THEN src ELSE src \o dst[y][x])
                 ELSE dst[y][x]]]

\* ui_render_node on the render context r: its lines, bitmaps and cursor.
\* fault is set when s8_append_repeat_string is asked for -1 repetitions,
\* which is a count of 2^64 - 1.  track_top is the value the local of that
\* name holds before it is assigned: it is read uninitialised.
\* The glyphs: 9484 9472 9488 9474 9492 9496 are the box, 9608 and 9617 the
\* thumb and the track.  The document of a TEXTAREA has ContentRows lines
\* of one letter each, a, b, ..., no selection, its cursor is at the start
\* and it is not in overtype mode.
RECURSIVE ui_render_node(_, _, _, _)
ui_render_node(r, N, node, track_top) ==
    LET n == N[node]
        outer_clamped == n.outer_clipped
        inner_clamped == n.inner_clipped
        width == outer_clamped.right - outer_clamped.left
        outer_height == outer_clamped.bottom - outer_clamped.top
        Repeat(ch, count) == [i \in 1..count |-> ch]
        Put(lines, y, x1, x2, text) ==
            [lines EXCEPT ![y + 1] = ui_replace_text(@, x1, x2, text).line]
        RECURSIVE Rows(_, _, _, _)
        Rows(lines, y, bottom, text) ==
            IF y >= bottom THEN lines
            ELSE Rows(Put(lines, y, outer_clamped.left, outer_clamped.right, text),
                      y + 1, bottom, text)
        \* the border, or the blanks of a floater
        Border(lines) ==
            IF n.attributes.bordered
            THEN Put(Rows(Put(lines, outer_clamped.top, outer_clamped.left,
                              outer_clamped.right,
                              <<9484>> \o Repeat(9472, width - 2) \o <<9488>>),
                          outer_clamped.top + 1, outer_clamped.bottom - 1,
                          <<9474>> \o Repeat(32, width - 2) \o <<9474>>),
                     outer_clamped.bottom - 1, outer_clamped.left, outer_clamped.right,
                     <<9492>> \o Repeat(9472, width - 2) \o <<9496>>)
            ELSE IF n.attributes.floating
            THEN Rows(lines, outer_clamped.top, outer_clamped.bottom, Repeat(32, width))
            ELSE lines
        \* (CoordType)(a / b * c + 0.5) for numbers that are not negative
        Round(a, b, c) == (2 * a * c + b) \div (2 * b)
        RECURSIVE Track(_, _, _, _)
        Track(lines, y, top, bottom) ==
            IF y >= outer_clamped.bottom THEN lines
            ELSE Track(Put(lines, y, outer_clamped.right - 1, outer_clamped.right,
                           IF y >= top /\ y < bottom THEN <<9608>> ELSE <<9617>>),
                       y + 1, top, bottom)
        Thumb(lines, track_height, track_bottom) ==
            Track(lines, outer_clamped.top,
                  min_i32(track_top, track_bottom - track_height) + outer_clamped.top,
                  track_bottom + outer_clamped.top)
        Bar(lines, inner_height, scroll_offset, track_height) ==
            Thumb(lines, track_height,
                  min_i32(max_i32(Round(scroll_offset + outer_height, inner_height,
                                        outer_height), track_height), outer_height))
        Content(lines, inner_height) ==
            Bar(lines, inner_height,
                min_i32(n.inner.top - N[n.child_first].outer.top, inner_height),
                max_i32(Round(outer_height, inner_height, outer_height), 1))
        Scrollbar(lines) ==
            IF n.content_type = UI_NODE_SCROLLAREA
            THEN Content(lines, N[n.child_first].intrinsic_size.height)
            ELSE lines
        \* the chunks of a text: one that starts left of the clip is skipped,
        \* and origin_x stays where it is
        RECURSIVE Chunks(_, _, _)
        Chunks(t, k, origin_x) ==
            IF k > Len(n.content.text) THEN t
            ELSE IF origin_x < inner_clamped.left THEN Chunks(t, k + 1, origin_x)
            ELSE
            LET chunk == n.content.text[k]
                row == inner_clamped.top + 1
                Painted(put) ==
                    Chunks([lines |-> [t.lines EXCEPT ![row] = put.line],
                            fg |-> IF chunk.fg # 0
                                   THEN [t.fg EXCEPT ![row] =
                                            [x \in 1..Len(t.fg[row]) |->
                                                IF x > origin_x /\ x <= put.x
                                                THEN <<0, chunk.fg>>
                                                ELSE t.fg[row][x]]]
                                   ELSE t.fg],
                           k + 1, put.x)
            IN Painted(ui_replace_text(t.lines[row], origin_x, inner_clamped.right,
                                       chunk.text))
        Text(lines, fg) ==
            IF n.content_type = UI_NODE_TEXT
            THEN Chunks([lines |-> lines, fg |-> fg], 1, n.inner.left)
            ELSE [lines |-> lines, fg |-> fg]
        \* the rows of the text area: line i of the document is one letter
        scroll_x == outer_clamped.left - n.outer.left
        Line(row) == IF row >= 0 /\ row < ContentRows /\ scroll_x = 0
                     THEN <<97 + row>> ELSE <<>>
        RECURSIVE TextRows(_, _)
        TextRows(lines, y) ==
            IF y >= inner_clamped.bottom THEN lines
            ELSE TextRows(Put(lines, y, inner_clamped.left, inner_clamped.right,
                              Line(y - n.outer.top)),
                          y + 1)
        Document(lines) ==
            IF n.content_type = UI_NODE_TEXTAREA
            THEN TextRows(lines, inner_clamped.top) ELSE lines
        \* the cursor of the document is at its start
        at == Point(0 - scroll_x, 0 + n.outer.top)
        cursor == IF /\ n.content_type = UI_NODE_TEXTAREA
                     /\ n.id = r.focused_item_id
                     /\ rect_contains(inner_clamped, at)
                  THEN at ELSE r.cursor
        RECURSIVE Children(_, _)
        Children(r1, child) ==
            IF child = NULL \/ r1.fault THEN r1
            ELSE Children(ui_render_node(r1, N, child, track_top),
                          N[child].sibling_next)
        Inner(lines2, bg, text) ==
            IF rect_is_empty(inner_clamped)
            THEN [r EXCEPT !.lines = lines2, !.bg_bitmap = bg, !.fg_bitmap = text.fg]
            ELSE Children([r EXCEPT !.lines = Document(text.lines), !.bg_bitmap = bg,
                                    !.fg_bitmap = text.fg, !.cursor = cursor],
                          n.child_first)
        Outer(lines2, bg, fg) ==
            Inner(lines2, bg,
                  IF rect_is_empty(inner_clamped) THEN [lines |-> lines2, fg |-> fg]
                  ELSE Text(lines2, fg))
    IN IF rect_is_empty(outer_clamped) THEN r
       ELSE IF n.attributes.bordered /\ width < 2 THEN [r EXCEPT !.fault = TRUE]
       ELSE Outer(Scrollbar(Border(r.lines)),
                  alpha_blend_rect(r.bg_bitmap, n.attributes.bg, outer_clamped),
                  alpha_blend_rect(r.fg_bitmap, n.attributes.fg, outer_clamped))
\* last_bg and last_fg when the cell (y, x) of a screen w columns wide is
\* reached: the colour of the cell written before it, rows one after the
\* other, and before the first cell its colour with the lowest bit
\* flipped.  last_color_of_row starts every row the way the first one
\* starts.
last_color_of_row(bitmap, w, y, x) ==
    IF x > 0 THEN bitmap[y + 1][x]
    ELSE LET v == bitmap[y + 1][1]
         IN [v EXCEPT ![Len(v)] = IF @ % 2 = 0 THEN @ + 1 ELSE @ - 1]

last_color(bitmap, w, y, x) ==
    IF x > 0 THEN bitmap[y + 1][x]
    ELSE IF y > 0 THEN bitmap[y][w]
    ELSE LET v == bitmap[1][1]
         IN [v EXCEPT ![Len(v)] = IF @ % 2 = 0 THEN @ + 1 ELSE @ - 1]

\* ui_root_render: the finalized context and the bytes written, kept as
\* the pieces they are appended in: "home" is ESC [ H, "crlf" the row
\* separator, "bg" and "fg" an SGR sequence with its numbers, "text" one
\* cell of a line, "cursor" the position, the style and ESC [ ? 25 h,
\* "hide" ESC [ ? 25 l.  screen is the render context after the nodes were
\* drawn.
ui_root_render(c0, track_top) ==
    LET Sgr(v, base, bright) ==
            IF Len(v) = 2 /\ v[1] = 0 /\ v[2] < 8 THEN <<base + v[2]>>
            ELSE IF Len(v) = 2 /\ v[1] = 0 /\ v[2] < 16 THEN <<bright + v[2] - 8>>
            ELSE IF Len(v) = 2
            THEN <<base + 8, 2, v[2] % 256, (v[2] \div 256) % 256,
                   (v[2] \div 65536) % 256>>
            ELSE <<base + 8, 2>> \o v
        RECURSIVE Crlf(_)
        \* the separators of the rows of a screen without columns
        Crlf(n) == IF n <= 0 THEN <<>> ELSE <<[k |-> "crlf", v |-> <<>>]>> \o Crlf(n - 1)
        Written(c, screen) ==
            LET w == c.size.width
                h == c.size.height
                Colours(y, x, bg, fg) ==
                    (IF x = 0 /\ y # 0 THEN <<[k |-> "crlf", v |-> <<>>]>> ELSE <<>>)
                    \o (IF last_color(screen.bg_bitmap, w, y, x) # bg
                        THEN <<[k |-> "bg", v |-> Sgr(bg, 40, 100)]>> ELSE <<>>)
                    \o (IF last_color(screen.fg_bitmap, w, y, x) # fg
                        THEN <<[k |-> "fg", v |-> Sgr(fg, 30, 90)]>> ELSE <<>>)
                    \o <<[k |-> "text", v |-> <<screen.lines[y + 1][x + 1]>>]>>
                Cell(y, x) ==
                    Colours(y, x, screen.bg_bitmap[y + 1][x + 1],
                            screen.fg_bitmap[y + 1][x + 1])
                RECURSIVE Scan(_, _)
                Scan(y, x) ==
                    IF y >= h THEN <<>>
                    ELSE IF x >= w THEN Scan(y + 1, 0)
                    ELSE Cell(y, x) \o Scan(y, x + 1)
            IN [ctx |-> c, screen |-> screen,
                out |-> IF c.hang \/ screen.fault THEN <<>>
                        ELSE <<[k |-> "home", v |-> <<>>]>>
                                 \o (IF w <= 0 THEN Crlf(h - 1)
                                     ELSE IF h <= 0 THEN <<>>
                                     ELSE Scan(0, 0))
                                 \o (IF screen.cursor.x >= 0 /\ screen.cursor.y >= 0
                                     THEN <<[k |-> "cursor",
                                             v |-> <<screen.cursor.y + 1,
                                                     screen.cursor.x + 1, 5>>]>>
                                     ELSE <<[k |-> "hide", v |-> <<>>]>>)]
        Drawn(c) ==
            LET RECURSIVE Roots(_, _)
                Roots(r, child) ==
                    IF child = NULL \/ r.fault THEN r
                    ELSE Roots(ui_render_node(r, c.nodes, child, track_top),
                               c.nodes[child].sibling_next)
            IN Written(c,
                       Roots([lines |-> [y \in 1..c.size.height |->
                                            [x \in 1..c.size.width |-> 32]],
                              bg_bitmap |-> [y \in 1..c.size.height |->
                                                [x \in 1..c.size.width |-> <<0, 0>>]],
                              fg_bitmap |-> [y \in 1..c.size.height |->
                                                [x \in 1..c.size.width |-> <<0, 15>>]],
                              cursor |-> Point(-1, -1),
                              focused_item_id |-> c.focused_item_id, fault |-> FALSE],
                             c.root_first))
    IN Drawn(ui_root_finalize(c0))
\* ------------------------------------------------------------- UI, frames
\* What one pass of the loop of main() keeps: the context, the two flags
\* of main(), exit when the pass went to the exit label, dirty the flag
\* of the document, and what the pass did: asked and clicked are the ids
\* ui_was_clicked was asked about and those it was true for, with the
\* focus at that moment, shortcuts the calls of ui_consume_shortcut with
\* the input they were made in, edits the calls made on the text buffer.
HostStart(c, wants_save, wants_exit, dirty) ==
    [ctx |-> c, wants_save |-> wants_save, wants_exit |-> wants_exit, exit |-> FALSE,
     dirty |-> dirty, asked |-> {}, clicked |-> {}, shortcuts |-> <<>>,
     edits |-> <<>>]

\* The value of a call that returns ui_was_clicked, noted.
Asked(s, r) ==
    [s EXCEPT !.ctx = r.ctx,
              !.asked = @ \cup {r.ctx.nodes[r.ctx.attr_node].id},
              !.clicked = IF r.ret
                          THEN @ \cup {[id |-> r.ctx.nodes[r.ctx.attr_node].id,
                                        focus |-> r.ctx.focused_item_id]}
                          ELSE @]

\* The menu bar of main() with the menus File (Save, Exit) and Help
\* (About); the texts are the accelerator letters.
HostMenubar(s) ==
    LET White == <<255, 16777215>>
        End(s3) == [s3 EXCEPT !.ctx = ui_container_end(s3.ctx)]
        About(s2, help, about) ==
            End(IF ~help.ret THEN [s2 EXCEPT !.ctx = help.ctx]
                ELSE [Asked(s2, about) EXCEPT !.ctx = ui_container_end(about.ctx)])
        HelpMenu(s2, help) == About(s2, help, ui_menubar_menu_item(help.ctx, <<65>>, 65, 0))
        Help(s2) == HelpMenu(s2, ui_menubar_menu_begin(s2.ctx, <<72>>, 72))
        Quit(file, s1, quit) ==
            Help(IF ~file.ret THEN [s EXCEPT !.ctx = file.ctx]
                 ELSE [Asked(s1, quit) EXCEPT !.wants_exit = @ \/ quit.ret,
                                              !.ctx = ui_container_end(quit.ctx)])
        Saved(file, s1) ==
            Quit(file, s1,
                 ui_menubar_menu_item(s1.ctx, <<88>>, 88, KEYBOARD_MODIFIER_CTRL + 81))
        Save(file, save) == Saved(file, [Asked(s, save) EXCEPT !.wants_save = @ \/ save.ret])
        File(file) ==
            Save(file, ui_menubar_menu_item(file.ctx, <<83>>, 83,
                                            KEYBOARD_MODIFIER_CTRL + 83))
    IN File(ui_menubar_menu_begin(
                ui_attr_foreground_rgba(
                    ui_attr_background_rgba(
                        ui_container_begin_named(s.ctx,
                                                 <<109, 101, 110, 117, 98, 97, 114>>),
                        <<63, 8355711>>),
                    White),
                <<70>>, 70))

\* The text area of the document and the status bar, whose text is that
\* of a cursor at the start.
HostDocument(prev, s) ==
    LET Statusbar(area, c2) ==
            [s EXCEPT !.ctx = ui_container_end(c2),
                      !.edits = @ \o area.calls,
                      !.dirty = @ \/ \E i \in 1..Len(area.calls) :
                                        area.calls[i][1] = "text_buffer_write"]
        Area(area) ==
            Statusbar(area,
                      ui_attr_padding(
                          ui_label(
                              ui_attr_foreground_rgba(
                                  ui_attr_background_rgba(
                                      ui_container_begin_named(
                                          area.ctx,
                                          <<115, 116, 97, 116, 117, 115, 98, 97, 114>>),
                                      <<63, 8355711>>),
                                  <<255, 16777215>>),
                              <<76, 110, 32, 49, 44, 32, 67, 111, 108, 32, 49,
                                32, 32, 73, 78, 83>>),
                          Rect(1, 0, 1, 0)))
    IN Area(ui_textarea(prev, ui_focus_next_by_default(s.ctx), ContentRows,
                        Size(0, s.ctx.size.height - 2)))

\* wants_save: the file is written, and it can be opened.
HostSave(s) ==
    IF s.wants_save
    THEN [s EXCEPT !.edits = Append(@, <<"text_buffer_write_file">>),
                   !.dirty = FALSE, !.wants_save = FALSE]
    ELSE s

\* An exit that does not ask: the request ends the program.
HostExit_unasked(s) ==
    IF s.wants_exit THEN [s EXCEPT !.exit = TRUE] ELSE s

\* wants_exit: the exit of a clean document, the dialog of a dirty one.
\* S("exit") is <<101, 120, 105, 116>>, S("buttons")
\* <<98, 117, 116, 116, 111, 110, 115>>; the title is Q?, the buttons Y, N.
HostExit(s) ==
    LET Buttons(yes, no) ==
            IF yes.ret THEN [Asked(s, yes) EXCEPT !.exit = TRUE]
            ELSE [Asked(Asked(s, yes), no) EXCEPT
                      !.wants_exit = ~no.ret,
                      !.ctx = ui_container_end(ui_container_end(no.ctx))]
        Yes(yes) == Buttons(yes, ui_button(yes.ctx, <<78>>))
        Dialog(c1) ==
            Yes(ui_button(
                    ui_attr_grid_columns(
                        ui_container_begin_named(
                            ui_attr_padding(ui_label(c1, <<81, 63>>), Rect(2, 0, 2, 1)),
                            <<98, 117, 116, 116, 111, 110, 115>>),
                        <<-1, -1>>),
                    <<89>>))
    IN IF ~s.wants_exit THEN s
       ELSE IF ~s.dirty THEN [s EXCEPT !.exit = TRUE]
       ELSE Dialog(ui_attr_float(
                       ui_attr_border(
                           ui_attr_background_indexed(
                               ui_attr_foreground_indexed(
                                   ui_container_begin_named(s.ctx, <<101, 120, 105, 116>>),
                                   15),
                               1)),
                       [gravity_x |-> 1, gravity_y |-> 1,
                        offset_x |-> s.ctx.size.width \div 2,
                        offset_y |-> s.ctx.size.height \div 2]))

\* The eight shortcuts at the end of the pass.
HostShortcuts(s) ==
    LET codes == <<KEYBOARD_MODIFIER_CTRL + 83,
                   KEYBOARD_MODIFIER_CTRL + KEYBOARD_MODIFIER_SHIFT + 83,
                   KEYBOARD_MODIFIER_CTRL + 81, KEYBOARD_MODIFIER_CTRL + 88,
                   KEYBOARD_MODIFIER_CTRL + 67, KEYBOARD_MODIFIER_CTRL + 86,
                   KEYBOARD_MODIFIER_CTRL + 70, KEYBOARD_MODIFIER_CTRL + 72>>
        RECURSIVE Each(_, _)
        Each(t, k) ==
            IF k > Len(codes) THEN t
            ELSE
            LET Called(r) ==
                    Each([t EXCEPT !.ctx = r.ctx,
                                   !.shortcuts =
                                       Append(@, [code |-> codes[k], ret |-> r.ret,
                                                  consumed |-> t.ctx.input_consumed,
                                                  keyboard |-> t.ctx.input_keyboard]),
                                   !.wants_save = @ \/ (k = 1 /\ r.ret),
                                   !.wants_exit = @ \/ (k = 3 /\ r.ret)],
                         k + 1)
            IN Called(ui_consume_shortcut(t.ctx, codes[k]))
    IN Each(s, 1)

\* The body of the loop behind ui_root_reset.
HostFrame(prev, s) ==
    LET Shortcuts(s1) == IF s1.exit THEN s1 ELSE HostShortcuts(s1)
    IN Shortcuts(HostExit(HostSave(HostDocument(prev, HostMenubar(s)))))

\* The state of the user interface: prev and ctx are the two contexts of
\* main(), host what the last pass kept, input its event, passes the number
\* of passes, reported and focus what ui_input_mouse returned and what
\* focused_item_id was when ui_root_reset returned, clicked_before the
\* clicks of the pass before; reads counts the calls of os_read_stdin that
\* returned bytes, calls are the events get_next_ui_input has returned
\* since the last of them, each with the size the context had, and built
\* the events the frames since then were built for, attr the calls of the
\* indexed colour setters with their arguments, map a node table, the
\* ids of its nodes, and the id looked up in it with what was found;
\* arenas[a] is the pass whose context and nodes arena a holds, 0 for the
\* context of ui_root_create, NULL for an arena nothing was allocated in;
\* call is the function of the builder that was called last;
\* out and screen are the last output of ui_root_render and
\* the lines and bitmaps behind it, screen_before those of the output
\* before, drawn the context that output was made from; track_top is the value the uninitialised local of
\* ui_render_node holds.
UiStart(track_top) ==
    [prev |-> ui_root_create, ctx |-> ui_root_create, input |-> UiInputZero,
     passes |-> 0, reported |-> MOUSE_ACTION_NONE, focus |-> <<>>,
     host |-> HostStart(ui_root_create, FALSE, FALSE, FALSE), clicked_before |-> {},
     out |-> <<>>, screen |-> <<>>, screen_before |-> <<>>, renders |-> 0,
     drawn |-> ui_root_create, reads |-> 0, calls |-> <<>>, built |-> <<>>,
     attr |-> <<>>, map |-> <<>>, arenas |-> <<0, NULL>>, call |-> "",
     track_top |-> track_top]

UiIdle == UiStart(0)

\* A frame of PaintWidth by PaintHeight labels of one letter each, a, b,
\* ..., in a grid; the label that holds the focus is on the background of
\* index 1.  S("cells") is <<99, 101, 108, 108, 115>>.
PaintFrame(prev, s) ==
    LET RECURSIVE Cells(_, _)
        Label(c1, k) ==
            Cells(IF ui_has_focus(c1) THEN ui_attr_background_indexed(c1, 1) ELSE c1,
                  k + 1)
        Cells(c, k) ==
            IF k > PaintWidth * PaintHeight THEN c
            ELSE Label(ui_label(c, <<96 + k>>), k)
    IN [s EXCEPT !.ctx = ui_container_end(
                             Cells(ui_attr_grid_columns(
                                       ui_container_begin_named(
                                           s.ctx, <<99, 101, 108, 108, 115>>),
                                       [i \in 1..PaintWidth |-> 0]),
                                   1))]

\* ------------------------------------------------------------ UI, passes
\* One pass of the inner loop of main(): ui_root_reset with the event,
\* then the frame Frame(prev, s) builds.  A context whose walk did not
\* return builds nothing.  arena_reset and the allocations of ui_root_reset
\* leave the arena of the new context holding that context's frame.
PassWith(u, input, Frame(_, _)) ==
    LET Built(r, host) ==
            [u EXCEPT !.prev = r.prev, !.ctx = host.ctx, !.host = host, !.input = input,
                      !.passes = @ + 1, !.reported = ui_input_mouse(r.ctx),
                      !.focus = r.ctx.focused_item_id,
                      !.clicked_before = u.host.clicked,
                      !.arenas = [@ EXCEPT ![r.ctx.arena] = u.passes + 1]]
        Started(r, s) == Built(r, IF r.ctx.hang THEN s ELSE Frame(r.prev, s))
        Reset(r) == Started(r, HostStart(r.ctx, u.host.wants_save, u.host.wants_exit,
                                         u.host.dirty))
    IN Reset(ui_root_reset(u.ctx, input))

Pass(u, input) == PassWith(u, input, HostFrame)

UiResize(w, h) ==
    [UiInputZero EXCEPT !.type = UI_INPUT_RESIZE, !.resize = Size(w, h)]

UiKey(key, modifiers) ==
    [UiInputZero EXCEPT !.type = UI_INPUT_KEYBOARD,
                        !.keyboard = [key |-> key, modifiers |-> modifiers]]

UiMouse(action, x, y, scroll_y) ==
    [UiInputZero EXCEPT !.type = UI_INPUT_MOUSE,
                        !.mouse = [action |-> action, modifier |-> 0,
                                   position |-> Point(x, y),
                                   scroll |-> Point(0, scroll_y)]]

\* The events drawn: the terminal at its size and one column wide; Ctrl+S,
\* Ctrl+Q, Ctrl+Shift+S and S; Ctrl+Up and Ctrl+Down; the letter a as text;
\* the left button pressed and no button at five cells (the two menu
\* labels, two cells of the text area, which the fly-out of a menu and the
\* two buttons of the dialog cover when they are shown, and a cell of the
\* scroll bar), the wheel both ways and the right button; and the event
\* without a type.
UiInputs ==
    {UiInputZero, UiResize(TermWidth, TermHeight), UiResize(1, TermHeight),
     UiKey(83, KEYBOARD_MODIFIER_CTRL), UiKey(81, KEYBOARD_MODIFIER_CTRL),
     UiKey(83, KEYBOARD_MODIFIER_CTRL + KEYBOARD_MODIFIER_SHIFT), UiKey(83, 0),
     UiKey(VK_UP, KEYBOARD_MODIFIER_CTRL), UiKey(VK_DOWN, KEYBOARD_MODIFIER_CTRL),
     [UiInputZero EXCEPT !.type = UI_INPUT_TEXT, !.text = <<97>>],
     UiMouse(MOUSE_ACTION_SCROLL, 1, 2, 3), UiMouse(MOUSE_ACTION_SCROLL, 1, 2, -3),
     UiMouse(MOUSE_ACTION_RIGHT, 1, 2, 0)}
    \cup {UiMouse(a, p[1], p[2], 0) :
              a \in {MOUSE_ACTION_LEFT, MOUSE_ACTION_NONE},
              p \in {<<1, 0>>, <<4, 0>>, <<1, 2>>, <<4, 2>>, <<7, 2>>}}

\* The events of the rendering runs: the size, the wheel, the left button
\* on the first menu label, no button, and the event without a type.
RenderInputs ==
    {UiInputZero, UiResize(TermWidth, TermHeight),
     UiMouse(MOUSE_ACTION_SCROLL, 1, 2, 3),
     UiMouse(MOUSE_ACTION_LEFT, 1, 0, 0), UiMouse(MOUSE_ACTION_NONE, 1, 0, 0)}

\* ------------------------------------------------------------ state machine
\* tb     the TextBuffer of main()
\* ghost  history kept for the properties:
\*   op, arg      the last operation and its argument
\*   wpre, wundo  the buffer before the last write; wundo is set by an undo
\*                that directly follows an insert-mode write
\*   chain        k consecutive writes, then j undos, then r redos, with the
\*                buffer right after the k-th write
\*   dead         addresses of the changes that were undone when a later
\*                edit was pushed; reapplied is set when redo applies one
\*   ref          the reference byte sequence of the insert-mode edits,
\*                valid while insert_only holds
\*   sel          the selection updates since the last selection end (or
\*                creation): their number n, the positions of the first and
\*                the last of them, and the value ret that the last
\*                selection end returned; first and last are kept when a
\*                selection end resets n
VARIABLES tb, ghost, vt, ui

vars == <<tb, ghost, vt, ui>>

\* Inputs of the model: "a", a newline, a wide glyph and a combining mark
\* to write; an empty file, one line with a wide glyph and two lines to load.
WriteStrings == {<<97>>, <<NL>>, <<228, 184, 150>>, <<204, 129>>}
Files == {<<>>, <<97, 228, 184, 150, 98>>, <<97, NL, 97>>}
Coords == 0..MaxCoord

NumChanges(t) == Cardinality(DOMAIN t.undo)

\* The addresses of the changes that are currently applied: undo_tail and
\* everything reachable from it through prev.
RECURSIVE AppliedFrom(_, _)
AppliedFrom(t, c) ==
    IF c = NULL \/ c \notin DOMAIN t.undo THEN {}
    ELSE {c} \cup AppliedFrom(t, t.undo[c].prev)

\* No operation may be started once the bookkeeping points outside the
\* committed region: the next access would fault.
Sane(t) ==
    /\ t.text_length >= 0
    /\ ~ULt(t.text_length, t.cursor.offset)
    /\ ~ULt(t.text_length, t.gap_off)
    /\ t.text_length + t.gap_len <= Capacity(t)

Snapshot(t) == [doc |-> Doc(t), cursor |-> t.cursor]

NoSnapshot == [doc |-> <<>>, cursor |-> ZeroCursor]

NoChain == [k |-> 0, j |-> 0, r |-> 0, post |-> NoSnapshot]

InitBuffer ==
    /\ tb = text_buffer_create
    /\ ghost = [op |-> "create", arg |-> 0,
                wpre |-> NoSnapshot, wundo |-> FALSE, chain |-> NoChain,
                dead |-> {}, reapplied |-> FALSE,
                ref |-> <<>>, insert_only |-> TRUE,
                sel |-> [n |-> 0, first |-> Point(0, 0), last |-> Point(0, 0),
                         ret |-> FALSE]]

Init ==
    /\ InitBuffer
    /\ ui = UiIdle
    /\ vt = VtIdle

\* The visual row is a counter that the wrapped cursor motion can push
\* without limit.
InView(t) ==
    IF t.word_wrap_columns < 0 THEN TRUE
    ELSE t.cursor.visual_pos.y >= -MaxRow /\ t.cursor.visual_pos.y <= MaxRow

Loaded == ghost.op # "create" /\ Sane(tb) /\ ~tb.hang /\ InView(tb)

\* Ghost update shared by the operations that are neither write, delete,
\* undo nor redo.
Moved(op, arg) ==
    [ghost EXCEPT !.op = op, !.arg = arg,
                  !.wpre = NoSnapshot, !.wundo = FALSE, !.chain = NoChain]

\* main() loads the file right after text_buffer_create; found says
\* whether the file could be opened.
ReadFile(found, file) ==
    /\ ghost.op = "create"
    /\ UNCHANGED <<vt, ui>>
    /\ tb' = text_buffer_read_file(tb, os_open_file(found) # 0, file)
    /\ ghost' = [Moved("read_file", found) EXCEPT !.ref = file]

\* Reference edits: the same insertion or removal on a plain sequence.
RefInsert(ref, off, str) ==
    SubSeq(ref, 1, min_i32(off, Len(ref))) \o str \o SubSeq(ref, off + 1, Len(ref))

RefRemove(ref, beg, end) ==
    SubSeq(ref, 1, min_i32(beg, Len(ref))) \o SubSeq(ref, end + 1, Len(ref))

\* limit caps the number of entries on the undo log.
Write(str, limit) ==
    /\ Loaded
    /\ tb.text_length + Len(str) <= MaxLen
    /\ NumChanges(tb) < limit
    /\ UNCHANGED <<vt, ui>>
    /\ tb' = text_buffer_write(tb, str)
    /\ ghost' = [ghost EXCEPT
          !.op = "write", !.arg = str,
          !.wpre = IF tb.overtype THEN NoSnapshot ELSE Snapshot(tb),
          !.wundo = FALSE,
          !.chain = IF ghost.chain.j = 0
                    THEN [k |-> ghost.chain.k + 1, j |-> 0, r |-> 0, post |-> Snapshot(tb')]
                    ELSE [k |-> 1, j |-> 0, r |-> 0, post |-> Snapshot(tb')],
          !.dead = @ \cup (DOMAIN tb.undo \ AppliedFrom(tb, tb.undo_tail)),
          !.ref = IF ghost.insert_only /\ ~tb.overtype
                  THEN RefInsert(@, tb.cursor.offset, str) ELSE <<>>,
          !.insert_only = @ /\ ~tb.overtype]

Delete(d, limit) ==
    /\ Loaded
    /\ NumChanges(tb) < limit
    /\ UNCHANGED <<vt, ui>>
    /\ tb' = text_buffer_delete(tb, d)
    /\ ghost' = [ghost EXCEPT
          !.op = "delete", !.arg = d,
          !.wpre = NoSnapshot, !.wundo = FALSE, !.chain = NoChain,
          !.dead = IF NumChanges(tb') > NumChanges(tb)
                   THEN @ \cup (DOMAIN tb.undo \ AppliedFrom(tb, tb.undo_tail))
                   ELSE @,
          \* the removed range starts at the cursor the delete leaves behind
          !.ref = IF ghost.insert_only /\ NumChanges(tb') > NumChanges(tb)
                  THEN RefRemove(@, tb'.cursor.offset,
                                 tb'.cursor.offset + (tb.text_length - tb'.text_length))
                  ELSE IF ghost.insert_only THEN @ ELSE <<>>]

Undo ==
    /\ Loaded
    /\ UNCHANGED <<vt, ui>>
    /\ tb' = text_buffer_undo(tb)
    /\ ghost' = [ghost EXCEPT
          !.op = "undo", !.arg = 0,
          !.wpre = IF ghost.op = "write" /\ ~tb.overtype THEN @ ELSE NoSnapshot,
          !.wundo = ghost.op = "write" /\ ~tb.overtype,
          !.chain = IF ghost.chain.k > 0 /\ ghost.chain.r = 0 /\ ghost.chain.j < ghost.chain.k
                    THEN [@ EXCEPT !.j = @ + 1]
                    ELSE NoChain,
          !.ref = <<>>, !.insert_only = FALSE]

Redo ==
    /\ Loaded
    /\ UNCHANGED <<vt, ui>>
    /\ tb' = text_buffer_redo(tb)
    /\ ghost' = [ghost EXCEPT
          !.op = "redo", !.arg = 0,
          !.wpre = NoSnapshot, !.wundo = FALSE,
          !.chain = IF ghost.chain.j > 0 /\ ghost.chain.r < ghost.chain.j
                    THEN [@ EXCEPT !.r = @ + 1]
                    ELSE NoChain,
          !.reapplied = @ \/ RedoTarget(tb) \in ghost.dead,
          !.ref = <<>>, !.insert_only = FALSE]

MoveDelta(d) ==
    /\ Loaded
    /\ UNCHANGED <<vt, ui>>
    /\ tb' = text_buffer_cursor_move_delta(tb, d)
    /\ ghost' = Moved("move_delta", d)

MoveToLogical(p) ==
    /\ Loaded
    /\ UNCHANGED <<vt, ui>>
    /\ tb' = text_buffer_cursor_move_to_logical(tb, p)
    /\ ghost' = Moved("move_to_logical", p)

MoveToVisual(p) ==
    /\ Loaded
    /\ UNCHANGED <<vt, ui>>
    /\ tb' = text_buffer_cursor_move_to_visual(tb, p)
    /\ ghost' = Moved("move_to_visual", p)

\* VK_INSERT in ui_textarea_handle_input.
ToggleOvertype ==
    /\ Loaded
    /\ UNCHANGED <<vt, ui>>
    /\ tb' = [tb EXCEPT !.overtype = ~@]
    /\ ghost' = Moved("overtype", 0)

\* The editing session without undo and redo: load, type, delete, move.
NextEdit ==
    \/ \E f \in Files : ReadFile(TRUE, f)
    \/ ReadFile(FALSE, <<>>)
    \/ \E s \in WriteStrings : Write(s, MaxEdits)
    \/ \E d \in {-1, 1} : Delete(d, MaxEdits)
    \/ \E d \in {-1, 1} : MoveDelta(d)
    \/ \E x \in Coords, y \in Coords : MoveToLogical(Point(x, y))
    \/ \E x \in Coords, y \in Coords : MoveToVisual(Point(x, y))
    \/ ToggleOvertype

SpecEdit == Init /\ [][NextEdit]_vars

\* Mouse drag in ui_textarea_handle_input.
SelectionUpdate(pos) ==
    /\ Loaded
    /\ ghost.sel.n < MaxUpdates
    /\ UNCHANGED <<vt, ui>>
    /\ tb' = text_buffer_selection_update(tb, pos)
    /\ ghost' = [Moved("selection_update", pos) EXCEPT
          !.sel = [@ EXCEPT !.n = @ + 1,
                            !.first = IF ghost.sel.n = 0 THEN pos ELSE @,
                            !.last = pos]]

\* Mouse release in ui_textarea_handle_input: a release that ends no
\* selection is a click and moves the cursor.
SelectionEnd(pos) ==
    LET Released(r) ==
            /\ UNCHANGED <<vt, ui>>
            /\ tb' = IF r.ret THEN r.tb
                     ELSE text_buffer_cursor_move_to_visual(r.tb, pos)
            /\ ghost' = [Moved("selection_end", pos) EXCEPT
                  !.sel = [@ EXCEPT !.n = 0, !.ret = r.ret]]
    IN Loaded /\ Released(text_buffer_selection_end(tb))

\* The mouse selection: load, drag, release.
NextSelect ==
    \/ \E f \in Files : ReadFile(TRUE, f)
    \/ ReadFile(FALSE, <<>>)
    \/ \E x \in Coords, y \in Coords : SelectionUpdate(Point(x, y))
    \/ \E x \in Coords, y \in Coords : SelectionEnd(Point(x, y))

SpecSelect == Init /\ [][NextSelect]_vars

\* ui_textarea: the width of the text area of the previous frame becomes the
\* wrap column; width 0 turns wrapping off.
Widths == 0..MaxWidth

Reflow(width) ==
    /\ Loaded
    /\ UNCHANGED <<vt, ui>>
    /\ tb' = text_buffer_reflow(tb, width)
    /\ ghost' = Moved("reflow", width)

\* The session with word wrap: load, type, resize the text area, move.
NextWrap ==
    \/ \E f \in Files : ReadFile(TRUE, f)
    \/ ReadFile(FALSE, <<>>)
    \/ \E s \in WriteStrings : Write(s, MaxWrapEdits)
    \/ \E w \in Widths : Reflow(w)
    \/ \E d \in {-1, 1} : MoveDelta(d)
    \/ \E x \in Coords, y \in Coords : MoveToLogical(Point(x, y))
    \/ \E x \in Coords, y \in Coords : MoveToVisual(Point(x, y))

SpecWrap == Init /\ [][NextWrap]_vars

\* The undo log: load, type, delete, undo, redo.
NextUndo ==
    \/ \E f \in Files : ReadFile(TRUE, f)
    \/ ReadFile(FALSE, <<>>)
    \/ \E s \in WriteStrings : Write(s, MaxChanges)
    \/ \E d \in {-1, 1} : Delete(d, MaxChanges)
    \/ Undo
    \/ Redo

SpecUndo == Init /\ [][NextUndo]_vars

\* ------------------------------------------------------------------ saving
\* The host saves with text_buffer_write_file (main.c:268).  found says
\* whether the file could be opened, last_error how WriteFile fails (0: it
\* does not).  The ghost keeps the codes os_write_file returned for the two
\* halves of the document, the buffer before the call, and what the call
\* handed back to the host, which is nothing: <<0, 0>>.
WriteFile(found, last_error) ==
    /\ Loaded
    /\ UNCHANGED <<vt, ui>>
    /\ tb' = text_buffer_write_file(tb, os_open_file(found) # 0)
    /\ ghost' = Moved("write_file",
                      [found |-> found,
                       errors |-> <<os_write_file(os_open_file(found), tb.gap_off,
                                                  last_error),
                                    os_write_file(os_open_file(found),
                                                  tb.text_length - tb.gap_off,
                                                  last_error)>>,
                       returned |-> <<0, 0>>,
                       pre |-> tb])

\* ERROR_DISK_FULL is 112.
NextFile ==
    \/ \E f \in Files : ReadFile(TRUE, f)
    \/ ReadFile(FALSE, <<>>)
    \/ \E s \in WriteStrings : Write(s, MaxEdits)
    \/ \E found \in BOOLEAN, last_error \in {0, 112} : WriteFile(found, last_error)

SpecFile == Init /\ [][NextFile]_vars

\* ------------------------------------------------- terminal input, tokens
\* The token a call reports: its kind and the member of the state that the
\* kind selects, strings as the bytes they point at.
VtToken(state, S) ==
    LET k == state.kind
        Bytes(s) == [i \in 1..s.len |-> S[s.beg + i]]
    IN [kind |-> k,
        payload |-> IF k = VT_TOKEN_KIND_TEXT THEN Bytes(state.text)
                    ELSE IF k = VT_TOKEN_KIND_CTRL THEN <<state.ctrl>>
                    ELSE IF k = VT_TOKEN_KIND_ESC THEN <<state.esc>>
                    ELSE IF k = VT_TOKEN_KIND_SS3 THEN <<state.ss3>>
                    ELSE IF k = VT_TOKEN_KIND_CSI
                    THEN <<state.csi.params, state.csi.param_count,
                           state.csi.private_byte, state.csi.final_byte>>
                    ELSE IF k = VT_TOKEN_KIND_OSC THEN Bytes(state.osc)
                    ELSE Bytes(state.dcs)]

\* The bytes stdin delivers.  ByteStreams are all short streams over the
\* bytes that drive the tokenizer outside CSI; CsiStreams are one CSI
\* sequence built from whole parameters, private bytes and separators,
\* optionally followed by a second one without parameters.  The build
\* outcome of the parameter reset is open only where a CSI sequence occurs.
ByteStreams ==
    LET VtBytes == {27, 93, 80, 79, 7, 92, 97}
    IN UNION {[1..n -> VtBytes] : n \in 1..MaxStream}

CsiStreams ==
    LET Items == {<<49>>, <<55, 48, 48, 48, 48>>, <<59>>, <<60>>, <<63>>}
        RECURSIVE Bodies(_)
        Bodies(n) == IF n = 0 THEN {<<>>}
                     ELSE Bodies(n - 1) \cup
                          {b \o i : b \in Bodies(n - 1), i \in Items}
        First == {<<27, 91>> \o b \o <<77>> : b \in Bodies(MaxItems)}
        Second == {<<>>, <<27, 91, 109>>}
    IN {a \o b : a \in First, b \in Second}

InitVt ==
    /\ InitBuffer
    /\ ui = UiIdle
    /\ \/ \E S \in ByteStreams, cut \in 1..MaxStream :
              cut <= Len(S) /\ vt = VtStart(S, cut, "alias")
       \/ \E S \in CsiStreams, build \in {"alias", "memset"} :
              \E cut \in 1..Len(S) : vt = VtStart(S, cut, build)

\* One vt_parse_next_token call on what is left of the current buffer.
VtParse ==
    /\ vt.it # vt.end
    /\ LET Called(r) ==
               vt' = [vt EXCEPT
                          !.state = r.state, !.it = r.it,
                          !.toks = IF r.state.kind = VT_TOKEN_KIND_PENDING THEN @
                                   ELSE Append(@, VtToken(r.state, vt.S)),
                          !.tok = IF r.state.kind = VT_TOKEN_KIND_PENDING THEN @
                                  ELSE [beg |-> r.it, state |-> r.state]]
       IN Called(vt_parse_next_token(vt.state, vt.S, vt.it, vt.end, vt.build))
    /\ UNCHANGED <<tb, ghost, ui>>

\* The next os_read_stdin delivers the rest of the stream.
VtRead ==
    /\ vt.it = vt.end
    /\ vt.end < Len(vt.S)
    /\ vt' = [vt EXCEPT !.end = Len(vt.S)]
    /\ UNCHANGED <<tb, ghost, ui>>

NextVt ==
    \/ VtParse
    \/ VtRead

SpecVt == InitVt /\ [][NextVt]_vars

\* ------------------------------------------------- terminal input, events
\* Tokens that match no row of the classifier: CTRL 0x1C, ESC 0x01,
\* SS3 T, CSI @, CSI E, CSI Z, CSI M, CSI ? M, CSI 7 ~, CSI 35 ~,
\* CSI 36 ~ and CSI 9 t.
UnlistedTokens ==
    {<<28>>, <<27, 1>>, <<27, 79, 84>>, <<27, 91, 64>>, <<27, 91, 69>>,
     <<27, 91, 90>>, <<27, 91, 77>>, <<27, 91, 63, 77>>, <<27, 91, 55, 126>>,
     <<27, 91, 51, 53, 126>>, <<27, 91, 51, 54, 126>>, <<27, 91, 57, 116>>}

\* What stdin delivers to the main loop: one or two of the window size
\* reports CSI 8 ; h ; w t (h and w omitted, 1, 32768 or 70000), the
\* unlisted tokens, and one token of each row of the classifier ("a",
\* Ctrl+A, TAB, Alt+a, F1, Up, Shift+Up, Delete, a mouse press).
InputStreams ==
    LET Dims == {<<>>, <<49>>, <<51, 50, 55, 54, 56>>, <<55, 48, 48, 48, 48>>}
        Reports == {<<27, 91, 56, 59>> \o h \o <<59>> \o w \o <<116>> :
                        h \in Dims, w \in Dims}
        Listed == {<<97>>, <<1>>, <<9>>, <<27, 97>>, <<27, 79, 80>>,
                   <<27, 91, 65>>, <<27, 91, 49, 59, 50, 65>>,
                   <<27, 91, 51, 126>>,
                   <<27, 91, 60, 48, 59, 49, 59, 49, 77>>}
        Units == Reports \cup UnlistedTokens \cup Listed
    IN Units \cup {a \o b : a \in Units, b \in Units}

\* No sequence of these streams has more than ParamSlots parameters, so
\* the outcome of the parameter reset is not open here; the byte behind
\* the lookup tables is.
InitInput ==
    /\ InitBuffer
    /\ ui = UiIdle
    /\ \E S \in InputStreams, oob \in {0, VK_UP} :
          \E cut \in 1..Len(S) :
              vt = [VtStart(S, cut, "alias") EXCEPT !.oob = oob]

\* One pass of the inner loop of main(): get_next_ui_input, then
\* ui_root_reset, which stores the size of a RESIZE event (a report of the
\* size already stored skips the frame and stores nothing new).  The pass
\* that starts on an empty input is the last one for this buffer.
GetNextUiInput ==
    /\ ~vt.done
    /\ LET Frame(r) ==
               vt' = [vt EXCEPT
                          !.state = r.state, !.it = r.it, !.input = r.result,
                          !.size = IF r.result.type = UI_INPUT_RESIZE
                                   THEN r.result.resize ELSE @,
                          !.done = (vt.it = vt.end)]
       IN Frame(get_next_ui_input(vt.state, vt.S, vt.it, vt.end, vt.build, vt.oob))
    /\ UNCHANGED <<tb, ghost, ui>>

\* The next os_read_stdin of the main loop delivers the rest of the stream.
InputRead ==
    /\ vt.done
    /\ vt.end < Len(vt.S)
    /\ vt' = [vt EXCEPT !.end = Len(vt.S), !.done = FALSE]
    /\ UNCHANGED <<tb, ghost, ui>>

NextInput ==
    \/ GetNextUiInput
    \/ InputRead

SpecInput == InitInput /\ [][NextInput]_vars

\* ------------------------------------------------- terminal input, drain
\* Every byte string of up to MaxDrain bytes over ESC, '[', ']', BEL, '\',
\* 'a' and 'A', delivered in one or two reads and drained by the
\* inner loop of main().  The loop runs until a pass has started on an
\* empty input, and nothing else can hold it up, hence the fairness.
InitDrain ==
    LET DrainBytes == {27, 91, 93, 7, 92, 97, 65}
        DrainStreams == UNION {[1..n -> DrainBytes] : n \in 1..MaxDrain}
    IN /\ InitBuffer
       /\ ui = UiIdle
       /\ \E S \in DrainStreams, cut \in 1..MaxDrain :
             /\ cut <= Len(S)
             /\ vt = VtStart(S, cut, "alias")

SpecDrain == InitDrain /\ [][NextInput]_vars /\ WF_vars(NextInput)


\* ------------------------------------------------- terminal input, mouse
\* The SGR mouse report CSI < b ; x ; y followed by M or m (final).
RECURSIVE Decimal(_)
Decimal(n) == IF n < 10 THEN <<48 + n>> ELSE Decimal(n \div 10) \o <<48 + (n % 10)>>

SgrMouse(b, x, y, final) ==
    <<27, 91, 60>> \o Decimal(b) \o <<59>> \o Decimal(x) \o <<59>>
        \o Decimal(y) \o <<final>>

\* Button codes: the three buttons and "no button", each modifier bit and
\* all of them, motion (bit 5), the wheel in both directions and with
\* modifiers; and positions.
MouseButtons == {0, 1, 2, 3, 4, 8, 16, 30, 32, 64, 65, 93}
MouseCoords == {1, 120}

\* What may precede a report: nothing, or a CSI sequence with one parameter
\* more than the parser has slots ("CSI 9 ; ... ; M", which the classifier
\* drops).
MousePrefixes == {<<>>, <<27, 91, 57>> \o [i \in 1..ParamSlots |-> 59] \o <<77>>}

InitMouse ==
    /\ InitBuffer
    /\ ui = UiIdle
    /\ \E pre \in MousePrefixes, b \in MouseButtons, x \in MouseCoords,
          y \in MouseCoords, final \in {77, 109}, build \in {"alias", "memset"} :
          \E cut \in 1..Len(pre \o SgrMouse(b, x, y, final)) :
              vt = VtStart(pre \o SgrMouse(b, x, y, final), cut, build)

SpecMouse == InitMouse /\ [][NextInput]_vars


\* ------------------------------------------------------- user interface
\* main() puts the window size into the input before the loop starts
\* (main.c:166): the runs start behind the pass of a RESIZE event, with a
\* document that is clean or dirty, whose exit may have been asked for.
InitUi ==
    /\ InitBuffer
    /\ vt = VtIdle
    /\ \E w \in {TermWidth, 1}, dirty \in BOOLEAN, wants_exit \in BOOLEAN :
           /\ wants_exit => dirty
           /\ ui = Pass([UiStart(0) EXCEPT !.host.dirty = dirty,
                                           !.host.wants_exit = wants_exit],
                        UiResize(w, TermHeight))

\* A pass of the loop.  A RESIZE to the size the context has is skipped.
Frame(input, limit) ==
    /\ ui.passes < limit
    /\ ~ui.ctx.hang /\ ~ui.host.exit
    /\ ~(input.type = UI_INPUT_RESIZE /\ input.resize = ui.ctx.size)
    /\ ui' = Pass(ui, input)
    /\ UNCHANGED <<tb, ghost, vt>>

\* ui_root_render after the last pass of a batch, whose event has no type.
Render ==
    /\ ui.input.type = UI_INPUT_NONE
    /\ ~ui.ctx.finalized /\ ~ui.ctx.hang /\ ~ui.host.exit
    /\ LET Rendered(r) ==
               [ui EXCEPT !.ctx = r.ctx, !.out = r.out, !.screen = r.screen,
                          !.screen_before = ui.screen, !.renders = @ + 1,
                          !.drawn = ui.ctx]
       IN ui' = Rendered(ui_root_render(ui.ctx, ui.track_top))
    /\ UNCHANGED <<tb, ghost, vt>>

NextUi == \E input \in UiInputs : Frame(input, MaxPasses)

SpecUi == InitUi /\ [][NextUi]_vars

\* The rendering runs: COORD_TYPE_MAX and 0 are two values the stack slot
\* of track_top can hold.
InitRender ==
    /\ InitBuffer
    /\ vt = VtIdle
    /\ \E track_top \in {0, COORD_TYPE_MAX} :
           ui = Pass(UiStart(track_top), UiResize(TermWidth, TermHeight))

NextRender ==
    \/ \E input \in RenderInputs : Frame(input, MaxRenderPasses)
    \/ Render

SpecRender == InitRender /\ [][NextRender]_vars


\* The runs of the frame of labels: the left button on each label, the
\* button-up event, and the event without a type.
PaintInputs ==
    {UiInputZero, UiMouse(MOUSE_ACTION_NONE, 0, 0, 0)}
    \cup {UiMouse(MOUSE_ACTION_LEFT, x, y, 0) :
              x \in 0..(PaintWidth - 1), y \in 0..(PaintHeight - 1)}

InitPaint ==
    /\ InitBuffer
    /\ vt = VtIdle
    /\ ui = PassWith(UiStart(0), UiResize(PaintWidth, PaintHeight), PaintFrame)

Paint(input) ==
    /\ ui.passes < MaxPaintPasses
    /\ ~ui.ctx.hang
    /\ ui' = PassWith(ui, input, PaintFrame)
    /\ UNCHANGED <<tb, ghost, vt>>

NextPaint ==
    \/ \E input \in PaintInputs : Paint(input)
    \/ Render

SpecPaint == InitPaint /\ [][NextPaint]_vars

\* The loop of main() (main.c:168-334) on what stdin delivers.  The first
\* bytes are the report of the window size that
\* os_inject_window_size_into_stdin puts there (main.c:166); behind it come
\* up to MaxUnits of: the same report again, the report of another size,
\* the letter a, Ctrl+Q, the left button pressed and released on the first
\* menu label, a lone ESC and the unlisted control 0x1C.  The bytes arrive
\* in one read or in two, cut at any place.
LoopStreams ==
    LET Report(w, h) == <<27, 91, 56, 59>> \o Decimal(h) \o <<59>> \o Decimal(w)
                            \o <<116>>
        Units == {Report(TermWidth, TermHeight), Report(TermWidth, TermHeight - 1),
                  <<97>>, <<17>>, <<27, 91, 60, 48, 59, 50, 59, 49, 77>>,
                  <<27, 91, 60, 48, 59, 50, 59, 49, 109>>, <<27>>, <<28>>}
        RECURSIVE Streams(_)
        Streams(n) == IF n = 0 THEN {<<>>}
                      ELSE Streams(n - 1)
                               \cup {s \o u : s \in Streams(n - 1), u \in Units}
    IN {Report(TermWidth, TermHeight) \o s : s \in Streams(MaxUnits)}

InitLoop ==
    /\ InitBuffer
    /\ \E S \in LoopStreams, dirty \in BOOLEAN : \E cut \in 1..Len(S) :
           /\ vt = VtStart(S, cut, "alias")
           /\ ui = [UiStart(0) EXCEPT !.host.dirty = dirty, !.reads = 1]

\* One turn of the inner loop: last_pass, get_next_ui_input, the test of
\* the RESIZE event against ctx->size, whose continue goes past the test
\* of last_pass, and otherwise ui_root_reset and the frame.
LoopPass ==
    /\ ~vt.done
    /\ ~ui.ctx.hang /\ ~ui.host.exit
    /\ LET Turn(r, skip) ==
               /\ vt' = [vt EXCEPT
                             !.state = r.state, !.it = r.it, !.input = r.result,
                             !.size = IF r.result.type = UI_INPUT_RESIZE
                                      THEN r.result.resize ELSE @,
                             !.done = (vt.it = vt.end) /\ ~skip]
               /\ ui' = [(IF skip THEN ui ELSE Pass(ui, r.result)) EXCEPT
                             !.calls = Append(@, [input |-> r.result,
                                                  size |-> ui.ctx.size]),
                             !.built = IF skip THEN @ ELSE Append(@, r.result)]
           Called(r) == Turn(r, /\ r.result.type = UI_INPUT_RESIZE
                                /\ r.result.resize = ui.ctx.size)
       IN Called(get_next_ui_input(vt.state, vt.S, vt.it, vt.end, vt.build, vt.oob))
    /\ UNCHANGED <<tb, ghost>>

\* A loop that renders behind every frame.
LoopRender_each ==
    /\ ui.built # <<>>
    /\ ~ui.ctx.finalized /\ ~ui.ctx.hang /\ ~ui.host.exit
    /\ LET Rendered(r) ==
               [ui EXCEPT !.ctx = r.ctx, !.out = r.out, !.screen = r.screen,
                          !.screen_before = ui.screen, !.renders = @ + 1,
                          !.drawn = ui.ctx]
       IN ui' = Rendered(ui_root_render(ui.ctx, ui.track_top))
    /\ UNCHANGED <<tb, ghost, vt>>

\* ui_root_render and os_write_stdout behind the inner loop.
LoopRender ==
    /\ vt.done
    /\ ~ui.ctx.finalized /\ ~ui.ctx.hang /\ ~ui.host.exit
    /\ LET Rendered(r) ==
               [ui EXCEPT !.ctx = r.ctx, !.out = r.out, !.screen = r.screen,
                          !.screen_before = ui.screen, !.renders = @ + 1,
                          !.drawn = ui.ctx]
       IN ui' = Rendered(ui_root_render(ui.ctx, ui.track_top))
    /\ UNCHANGED <<tb, ghost, vt>>

\* The next os_read_stdin delivers the rest of the stream.
LoopRead ==
    /\ vt.done
    /\ ui.ctx.finalized /\ ~ui.host.exit
    /\ vt.end < Len(vt.S)
    /\ vt' = [vt EXCEPT !.end = Len(vt.S), !.done = FALSE]
    /\ ui' = [ui EXCEPT !.reads = @ + 1, !.calls = <<>>, !.built = <<>>]
    /\ UNCHANGED <<tb, ghost>>

NextLoop ==
    \/ LoopPass
    \/ LoopRender
    \/ LoopRead

SpecLoop == InitLoop /\ [][NextLoop]_vars

\* The trees that ui_container_begin, ui_container_end and ui_attr_float
\* build behind ui_root_reset: up to MaxNodes containers, the k-th named by
\* the letter k, each floated or not once it is begun or ended, then the
\* frame is finalized by the ui_root_reset of a mouse event, which walks
\* it for the hit test.  ui_container_end is not called on the root and
\* ui_attr_float not on the root or on a floater.
InitTree ==
    /\ InitBuffer
    /\ vt = VtIdle
    /\ ui = PassWith(UiStart(0), UiResize(TermWidth, TermHeight),
                     LAMBDA prev, s : s)

TreeBegin ==
    /\ ui.passes = 1
    /\ ui.ctx.node_count <= MaxNodes
    /\ ui' = [ui EXCEPT !.ctx = ui_container_begin_named(@, <<96 + @.node_count>>)]
    /\ UNCHANGED <<tb, ghost, vt>>

TreeEnd ==
    /\ ui.passes = 1
    /\ ui.ctx.parent # ui.ctx.root_first
    /\ ui' = [ui EXCEPT !.ctx = ui_container_end(@)]
    /\ UNCHANGED <<tb, ghost, vt>>

TreeFloat ==
    /\ ui.passes = 1
    /\ ui.ctx.attr_node # ui.ctx.root_first
    /\ ~ui.ctx.nodes[ui.ctx.attr_node].attributes.floating
    /\ ui' = [ui EXCEPT !.ctx = ui_attr_float(@, [gravity_x |-> 0, gravity_y |-> 0,
                                                   offset_x |-> 0, offset_y |-> 1])]
    /\ UNCHANGED <<tb, ghost, vt>>

TreeReset ==
    /\ ui.passes = 1
    /\ ui.ctx.parent = ui.ctx.root_first
    /\ ui' = PassWith(ui, UiMouse(MOUSE_ACTION_LEFT, 0, 0, 0), LAMBDA prev, s : s)
    /\ UNCHANGED <<tb, ghost, vt>>

NextTree ==
    \/ TreeBegin
    \/ TreeEnd
    \/ TreeFloat
    \/ TreeReset

SpecTree == InitTree /\ [][NextTree]_vars

\* The indexed colour setters called on a container of a frame, with the
\* arguments 0..MaxIndex.  A read behind the palette is undefined: a build
\* either loads the word behind the array or, taking the index to be in
\* the array, loads entry 0.
InitAttr ==
    /\ InitBuffer
    /\ vt = VtIdle
    /\ \E w \in {TermWidth, 1} :
           ui = PassWith(UiStart(0), UiResize(w, TermHeight),
                         LAMBDA prev, s :
                             [s EXCEPT !.ctx = ui_container_begin_named(@, <<97>>)])

AttrBackground(i) ==
    /\ Len(ui.attr) < MaxAttrCalls
    /\ ui' = [ui EXCEPT !.ctx = ui_attr_background_indexed(@, i),
                        !.attr = Append(@, <<"bg", i>>)]
    /\ UNCHANGED <<tb, ghost, vt>>

AttrForeground(i) ==
    /\ Len(ui.attr) < MaxAttrCalls
    /\ \E build \in {"load", "fold"} :
           ui' = [ui EXCEPT !.ctx = ui_attr_foreground_indexed(
                                        @, IF build = "fold" THEN i % 16 ELSE i),
                           !.attr = Append(@, <<"fg", i>>)]
    /\ UNCHANGED <<tb, ghost, vt>>

NextAttr ==
    \E i \in 0..MaxIndex :
        \/ AttrBackground(i)
        \/ AttrForeground(i)

SpecAttr == InitAttr /\ [][NextAttr]_vars

\* The node table of a frame of up to MaxMapNodes nodes.  The ids are taken
\* from MapIds: ids 0..3 start at one slot or at neighbouring ones, the
\* ids with all bits but the lowest two set start at the last slot, from
\* where the probe wraps around.  Nodes of one id occur (two labels of one
\* text under one parent).
MapIds == {0, 1, 2, 3, (2 ^ IdBits) - 4, (2 ^ IdBits) - 1, 2 ^ (IdBits - 1)}

InitMap ==
    /\ InitBuffer
    /\ vt = VtIdle
    /\ \E n \in 0..MaxMapNodes, wide \in {"wrap", "zero"} :
           \E ids \in [1..n -> MapIds] :
               ui = [UiStart(0) EXCEPT
                        !.map = [ids |-> ids, table |-> node_map_fill(ids, wide),
                                 looked |-> FALSE, id |-> 0, found |-> NULL]]

MapFind(id) ==
    /\ ~ui.map.looked
    /\ ui' = [ui EXCEPT !.map.looked = TRUE, !.map.id = id,
                        !.map.found = node_map_find(ui.map.table, ui.map.ids, id)]
    /\ UNCHANGED <<tb, ghost, vt>>

NextMap == \E id \in MapIds : MapFind(id)

SpecMap == InitMap /\ [][NextMap]_vars

\* The calls that build a frame, one at a time, in any order: containers
\* begun with the id of the root, of a first and of a second container,
\* containers ended, ui_focus_next_by_default, and one call of one of the
\* eight attribute setters.
FocusIds == {<<>>, hash_s8(<<>>, <<97>>), hash_s8(<<>>, <<98>>)}

InitFocus ==
    /\ InitBuffer
    /\ vt = VtIdle
    /\ ui = PassWith(UiStart(0), UiResize(TermWidth, TermHeight),
                     LAMBDA prev, s : s)

FocusBegin(id) ==
    /\ ui.ctx.node_count < MaxNodes
    /\ ui' = [ui EXCEPT !.ctx = ui_container_begin(@, id),
                        !.call = "ui_container_begin"]
    /\ UNCHANGED <<tb, ghost, vt>>

FocusEnd ==
    /\ ui.ctx.parent # ui.ctx.root_first
    /\ ui' = [ui EXCEPT !.ctx = ui_container_end(@), !.call = "ui_container_end"]
    /\ UNCHANGED <<tb, ghost, vt>>

FocusRequest ==
    /\ ui' = [ui EXCEPT !.ctx = ui_focus_next_by_default(@),
                        !.call = "ui_focus_next_by_default"]
    /\ UNCHANGED <<tb, ghost, vt>>

FocusSetter(c, k) ==
    CASE k = 1 -> ui_attr_border(c)
      [] k = 2 -> ui_attr_padding(c, Rect(1, 0, 1, 0))
      [] k = 3 -> ui_attr_grid_columns(c, <<-1>>)
      [] k = 4 -> ui_attr_background_rgba(c, indexed_colors[1])
      [] k = 5 -> ui_attr_foreground_rgba(c, indexed_colors[1])
      [] k = 6 -> ui_attr_background_indexed(c, 1)
      [] k = 7 -> ui_attr_foreground_indexed(c, 1)
      [] k = 8 -> ui_attr_float(c, [gravity_x |-> 0, gravity_y |-> 0,
                                    offset_x |-> 0, offset_y |-> 1])

FocusAttr(k) ==
    /\ ui.attr = <<>>
    /\ k = 8 =>
           /\ ui.ctx.attr_node # ui.ctx.root_first
           /\ ~ui.ctx.nodes[ui.ctx.attr_node].attributes.floating
    /\ ui' = [ui EXCEPT !.ctx = FocusSetter(@, k), !.call = "ui_attr",
                        !.attr = Append(@, <<"attr", k>>)]
    /\ UNCHANGED <<tb, ghost, vt>>

NextFocus ==
    \/ \E id \in FocusIds : FocusBegin(id)
    \/ FocusEnd
    \/ FocusRequest
    \/ \E k \in 1..8 : FocusAttr(k)

SpecFocus == InitFocus /\ [][NextFocus]_vars

\* ------------------------------------------------------------- properties
\* C1: k >= 1 writes followed by j undos (1 <= j <= k) and then j redos
\* leave the document bytes and the cursor as they were right after the k
\* writes.
RedoRestoresWrites ==
    (ghost.chain.k >= 1 /\ ghost.chain.j >= 1 /\ ghost.chain.r = ghost.chain.j)
        => Snapshot(tb) = ghost.chain.post

\* C2: an undo that directly follows an insert-mode write restores the
\* document bytes and the whole cursor to their values before the write.
UndoRestoresWrite ==
    ghost.wundo => Snapshot(tb) = ghost.wpre

\* C3: redo never re-applies a change that had been undone when a later
\* write or delete was pushed.
NoDeadRedo == ~ghost.reapplied

\* C4: with overtype off, text_length is the number of document bytes and
\* extract(0, text_length) is the reference sequence that received the same
\* insertions and removals, wherever the gap lies.
InsertModeMatchesReference ==
    ghost.insert_only =>
        /\ tb.text_length = Len(ghost.ref)
        /\ Doc(tb) = ghost.ref

\* An insert-mode session that has pushed two edits, the last one a delete,
\* and has the gap strictly inside the document.
InsertModeEdited ==
    /\ ghost.insert_only
    /\ ghost.op = "delete"
    /\ NumChanges(tb) >= 2
    /\ tb.gap_off > 0
    /\ tb.gap_off < tb.text_length

\* C5: in overtype mode, writing one grapheme onto a grapheme replaces it:
\* the document becomes prefix ++ bytes ++ suffix-after-the-grapheme and
\* text_length changes by len(bytes) - len(replaced).
OvertypeReplacesGrapheme ==
    [][(/\ ghost'.op = "write"
        /\ tb.overtype
        /\ ghost'.arg \in {<<97>>, <<228, 184, 150>>}
        /\ tb.cursor.offset < Len(Doc(tb))
        /\ Doc(tb)[tb.cursor.offset + 1] # NL)
       => LET doc == Doc(tb)
              off == tb.cursor.offset
              n == ClusterLen(doc, off)
          IN /\ tb'.text_length = tb.text_length + Len(ghost'.arg) - n
             /\ Doc(tb') = SubSeq(doc, 1, off) \o ghost'.arg
                               \o SubSeq(doc, off + n + 1, Len(doc))]_vars

\* C6: delete(-n) removes only bytes before the cursor offset, delete(+n)
\* only bytes at or after it, and delete(-1) at offset 0 and delete(+1) at
\* text_length leave document, cursor and undo log unchanged.
DeleteRemovesRange ==
    [][ghost'.op = "delete"
       => LET d == ghost'.arg
              doc == Doc(tb)
              off == tb.cursor.offset
          IN /\ d < 0 => \E b \in 0..off :
                    Doc(tb') = SubSeq(doc, 1, b) \o SubSeq(doc, off + 1, Len(doc))
             /\ d > 0 => \E e \in off..Len(doc) :
                    Doc(tb') = SubSeq(doc, 1, off) \o SubSeq(doc, e + 1, Len(doc))
             /\ ((d < 0 /\ off = 0) \/ (d > 0 /\ off = tb.text_length))
                    => /\ Doc(tb') = doc
                       /\ tb'.cursor = tb.cursor
                       /\ tb'.undo = tb.undo
                       /\ tb'.undo_tail = tb.undo_tail]_vars

CursorInBounds ==
    /\ ~ULt(tb.text_length, tb.cursor.offset)
    /\ tb.cursor.logical_pos.x >= 0
    /\ tb.cursor.logical_pos.y >= 0
    /\ tb.cursor.logical_pos.y < tb.stats.lines

\* C9: cursor_move_delta(-1) never increases cursor.offset and
\* cursor_move_delta(+1) never decreases it; at offset 0 and at text_length
\* respectively the cursor is unchanged.
MoveDeltaClamps ==
    [][ghost'.op = "move_delta"
       => /\ ghost'.arg < 0 => ~ULt(tb.cursor.offset, tb'.cursor.offset)
          /\ ghost'.arg > 0 => ~ULt(tb'.cursor.offset, tb.cursor.offset)
          /\ (ghost'.arg < 0 /\ tb.cursor.offset = 0) => tb'.cursor = tb.cursor
          /\ (ghost'.arg > 0 /\ tb.cursor.offset = tb.text_length)
                 => tb'.cursor = tb.cursor]_vars

\* Column width of the text between the start of the cursor's line and the
\* cursor.
CursorColumn(t) ==
    LET doc == Doc(t)
        start == PrevNewline(doc, t.cursor.offset) + 1
    IN ucd_measure_forward(SubSeq(doc, start + 1, t.cursor.offset), 0,
                           Point(0, 0), -1, -1).pos.x

\* C10: with word wrap off, after every operation that changes the cursor
\* visual_pos.y = logical_pos.y and visual_pos.x is the column width of the
\* line's text before the cursor.
VisualMatchesLogical ==
    (/\ ghost.op \in {"move_delta", "move_to_logical", "move_to_visual",
                      "write", "delete", "undo", "redo"}
     /\ tb.word_wrap_columns < 0
     /\ Sane(tb))
    => /\ tb.cursor.visual_pos.y = tb.cursor.logical_pos.y
       /\ tb.cursor.visual_pos.x = CursorColumn(tb)


\* C11: text_buffer_cursor_move_to_logical is idempotent: a second call with
\* the same target leaves offset, logical_pos and visual_pos as the first
\* call left them, for every document, gap position and wrap setting.
MoveToLogicalIdempotent ==
    [][(ghost'.op = "move_to_logical" /\ ~tb'.hang)
       => text_buffer_cursor_move_to_logical(tb', ghost'.arg).cursor = tb'.cursor]_vars

\* C12: text_buffer_reflow(w) with w >= 1 followed by text_buffer_reflow(-1)
\* leaves cursor.logical_pos and cursor.offset as they were before the two
\* calls, also when logical_pos.x lies beyond column w.
ReflowRoundTrip ==
    [][(ghost'.op = "reflow" /\ ghost'.arg >= 1
        /\ ~tb'.hang /\ ~text_buffer_reflow(tb', -1).hang)
       => /\ text_buffer_reflow(tb', -1).cursor.logical_pos = tb.cursor.logical_pos
          /\ text_buffer_reflow(tb', -1).cursor.offset = tb.cursor.offset]_vars


\* C13: the selection is a four-state machine.  selection_update moves
\* NONE/DONE to MAYBE and sets beg, MAYBE/ACTIVE to ACTIVE and sets end;
\* selection_end returns true and moves to DONE iff the state was ACTIVE,
\* otherwise it returns false and moves to NONE.  Hence selection_end
\* returns true iff at least two updates happened since the previous
\* selection_end (or creation), and then beg is the position of the first
\* and end the position of the last of them.
SelectionStateMachine ==
    [][/\ ghost'.op = "selection_update" =>
            IF tb.selection.state \in {TEXT_BUFFER_SELECTION_NONE,
                                       TEXT_BUFFER_SELECTION_DONE}
            THEN tb'.selection = [tb.selection EXCEPT
                                      !.state = TEXT_BUFFER_SELECTION_MAYBE,
                                      !.beg = ghost'.arg]
            ELSE tb'.selection = [tb.selection EXCEPT
                                      !.state = TEXT_BUFFER_SELECTION_ACTIVE,
                                      !.end = ghost'.arg]
       /\ ghost'.op = "selection_end" =>
            /\ ghost'.sel.ret <=> tb.selection.state = TEXT_BUFFER_SELECTION_ACTIVE
            /\ tb'.selection.state = IF ghost'.sel.ret
                                     THEN TEXT_BUFFER_SELECTION_DONE
                                     ELSE TEXT_BUFFER_SELECTION_NONE
            /\ ghost'.sel.ret <=> ghost.sel.n >= 2
            /\ ghost'.sel.ret => /\ tb'.selection.beg = ghost.sel.first
                                 /\ tb'.selection.end = ghost.sel.last]_vars

\* A release that returned true for a drag whose first and last positions
\* differ.
SelectionCompleted ==
    /\ ghost.op = "selection_end"
    /\ ghost.sel.ret
    /\ tb.selection.state = TEXT_BUFFER_SELECTION_DONE
    /\ tb.selection.beg = ghost.sel.first
    /\ tb.selection.end = ghost.sel.last
    /\ ghost.sel.first # ghost.sel.last


\* while (it != end) { it = vt_parse_next_token(state, it, end); ... }: the
\* non-PENDING tokens of one buffer S[it+1 .. end], appended to toks.
RECURSIVE VtDrain(_, _, _, _, _, _)
VtDrain(state, S, it, end, build, toks) ==
    LET Called(r) ==
            VtDrain(r.state, S, r.it, end, build,
                    IF r.state.kind = VT_TOKEN_KIND_PENDING THEN toks
                    ELSE Append(toks, VtToken(r.state, S)))
    IN IF it = end THEN toks
       ELSE Called(vt_parse_next_token(state, S, it, end, build))

\* C14: once both buffers of a split stream are drained, the tokens reported
\* (kind and payload, PENDING left out) are those of draining the whole
\* stream in one buffer.
ResumptionEquivalence ==
    vt.it = Len(vt.S)
        => vt.toks = VtDrain(VtParserStateZero, vt.S, 0, Len(vt.S), vt.build, <<>>)


\* C15: a call that stops at the end of the buffer inside a sequence that is
\* not terminated yet (after ESC, after ESC O, inside CSI, inside an OSC or
\* DCS string, or right after the ESC that may begin its ST) reports PENDING.
PendingAtBufferEnd ==
    (/\ vt.it = vt.end
     /\ vt.it > 0
     /\ \/ vt.state._state \in {VT_PARSER_STATE_KIND_ESC, VT_PARSER_STATE_KIND_SS3,
                                VT_PARSER_STATE_KIND_CSI, VT_PARSER_STATE_KIND_OSC,
                                VT_PARSER_STATE_KIND_DCS}
        \/ /\ vt.state._state \in {VT_PARSER_STATE_KIND_OSC_ESC,
                                   VT_PARSER_STATE_KIND_DCS_ESC}
           /\ vt.S[vt.it] = 27)
        => vt.state.kind = VT_TOKEN_KIND_PENDING


\* C16: when the first buffer ended with the ESC of a string terminator
\* (parser in OSC_ESC or DCS_ESC) and the second buffer begins with the
\* backslash, the call that reads the backslash reports the OSC/DCS token,
\* the stream up to there has given as many tokens as it gives unsplit, and
\* the tokenizer is back in GROUND.
StringTerminatorSplit ==
    [][(/\ vt.state._state \in {VT_PARSER_STATE_KIND_OSC_ESC,
                                VT_PARSER_STATE_KIND_DCS_ESC}
        /\ vt.it = vt.cut
        /\ vt.end = Len(vt.S)
        /\ vt.S[vt.it + 1] = 92
        /\ vt'.it # vt.it)
       => /\ vt'.it = vt.it + 1
          /\ vt'.state.kind \in {VT_TOKEN_KIND_OSC, VT_TOKEN_KIND_DCS}
          /\ Len(vt'.toks) = Len(VtDrain(VtParserStateZero, vt.S, 0, vt'.it,
                                         vt.build, <<>>))
          /\ vt'.state._state = VT_PARSER_STATE_KIND_GROUND]_vars


\* C17: when a CSI sequence (ESC [ ... final byte, begun in GROUND) is cut
\* by the end of the first buffer anywhere after its ESC, the call on the
\* first part consumes all of it and reports PENDING, and the call on the
\* second part reports exactly one CSI token that ends where the unsplit
\* sequence ends and has its params, param_count, private byte and final
\* byte.
CsiSplitResumes ==
    [][LET beg == vt.tok.beg
           Holds(whole) ==
               (/\ whole.state.kind = VT_TOKEN_KIND_CSI
                /\ beg < vt.cut
                /\ vt.cut < whole.it)
               => IF vt.end < whole.it
                  THEN /\ vt'.it = vt.end
                       /\ vt'.state.kind = VT_TOKEN_KIND_PENDING
                       /\ vt'.toks = vt.toks
                  ELSE /\ vt'.it = whole.it
                       /\ vt'.state.kind = VT_TOKEN_KIND_CSI
                       /\ vt'.state.csi = whole.state.csi
                       /\ vt'.state._state = VT_PARSER_STATE_KIND_GROUND
                       /\ Len(vt'.toks) = Len(vt.toks) + 1
       IN (/\ vt'.it # vt.it
           /\ vt.tok.state._state = VT_PARSER_STATE_KIND_GROUND
           /\ beg + 2 <= Len(vt.S)
           /\ vt.S[beg + 1] = 27
           /\ vt.S[beg + 2] = 91)
          => Holds(vt_parse_next_token(vt.tok.state, vt.S, beg, Len(vt.S), vt.build))]_vars

\* A CSI sequence cut inside the digits of its second parameter has been
\* resumed: ESC [ 1 ; 7 | 0000 M reports parameters 1 and 0xFFFF.
CsiResumedInsideNumber ==
    /\ vt.S = <<27, 91, 49, 59, 55, 48, 48, 48, 48, 77>>
    /\ vt.cut = 5
    /\ vt.it = Len(vt.S)
    /\ vt.state.kind = VT_TOKEN_KIND_CSI
    /\ vt.state.csi.params = (0 :> 1 @@ 1 :> 65535 @@ 2 :> 0)
    /\ vt.state.csi.final_byte = 77
    /\ Len(vt.toks) = 1


\* What the bytes between ESC [ and the final byte say: the parameters are
\* the runs between semicolons, each the decimal value of its digits capped
\* at 0xFFFF (0 without digits), the first ParamSlots of them kept; the
\* private byte is the last byte in '<'..'?'.
CsiReference(body) ==
    LET RECURSIVE Value(_, _, _)
        \* decimal value of the digits of parameter number idx; a value
        \* above the cap is kept as the cap, which leaves the capped result
        \* the same and the numbers small
        Value(i, idx, v) ==
            IF i > Len(body) THEN v
            ELSE IF body[i] = 59 THEN IF idx = 0 THEN v ELSE Value(i + 1, idx - 1, 0)
            ELSE IF idx = 0 /\ body[i] >= 48 /\ body[i] <= 57
                 THEN Value(i + 1, idx, min_i32(v * 10 + (body[i] - 48), 65535))
            ELSE Value(i + 1, idx, v)
        Private == {i \in 1..Len(body) : body[i] >= 60 /\ body[i] <= 63}
        Last(I) == CHOOSE i \in I : \A j \in I : j <= i
    IN [params |-> [idx \in 0..(ParamSlots - 1) |->
                        Value(1, idx, 0)],
        private_byte |-> IF Private = {} THEN 0 ELSE body[Last(Private)]]

\* C18: a CSI token is reported on the first byte in 0x40..0x7E after
\* ESC [, with that byte as final byte, with every parameter slot holding
\* what the bytes of this sequence say (digits behind the last slot left
\* out, nothing kept from an earlier sequence) and with the last byte in
\* '<'..'?' as private byte.
CsiParameters ==
    [][LET beg == vt.tok.beg
           Holds(body, ref) ==
               /\ \A i \in 1..Len(body) : body[i] < 64 \/ body[i] > 126
               /\ vt.S[vt'.it] >= 64
               /\ vt.S[vt'.it] <= 126
               /\ vt'.state.csi.final_byte = vt.S[vt'.it]
               /\ vt'.state.csi.private_byte = ref.private_byte
               /\ vt'.state.csi.params = ref.params
           Body(body) == Holds(body, CsiReference(body))
       IN (/\ vt'.it # vt.it
           /\ vt'.state.kind = VT_TOKEN_KIND_CSI
           /\ vt.tok.state._state = VT_PARSER_STATE_KIND_GROUND
           /\ vt.S[beg + 1] = 27
           /\ vt.S[beg + 2] = 91)
          => Body(SubSeq(vt.S, beg + 3, vt'.it - 1))]_vars


\* C19: the RESIZE event that get_next_ui_input returns and the size that
\* ui_root_reset has stored are at least 1 and below 32768 in both directions.
ResizeInRange ==
    LET InRange(size) == /\ 1 <= size.width
                         /\ size.width < 32768
                         /\ 1 <= size.height
                         /\ size.height < 32768
    IN /\ vt.input.type = UI_INPUT_RESIZE => InRange(vt.input.resize)
       /\ vt.size # UiInputZero.resize => InRange(vt.size)

\* C20: a call that starts in GROUND on an unlisted token that lies whole
\* in the buffer ends where the call without that token ends and returns
\* the event that call returns: none when nothing follows, else the event
\* of what follows.
DropsUnlisted ==
    [][\A T \in UnlistedTokens :
          LET beg == vt.it + Len(T)
              Same(r0) == /\ vt'.it = r0.it
                          /\ vt'.input.type = r0.result.type
                          /\ vt'.input.type # UI_INPUT_NONE
                                => vt'.input = r0.result
          IN (/\ ~vt.done
              /\ vt'.end = vt.end
              /\ vt.state._state = VT_PARSER_STATE_KIND_GROUND
              /\ beg <= vt.end
              /\ SubSeq(vt.S, vt.it + 1, beg) = T)
             => Same(get_next_ui_input(vt.state, vt.S, beg, vt.end,
                                       vt.build, vt.oob))]_vars


\* C21: draining a finite byte slice through get_next_ui_input terminates.
\* Every call on a non-empty slice removes a non-empty prefix and stays
\* within the slice, and so does vt_parse_next_token; the event of a call
\* is made from the bytes the call removed (the same call on the removed
\* prefix alone returns the same event), so events come in the order of
\* their bytes; and the loop reaches the end of the stream and stops.
DrainTerminates ==
    /\ [][~vt.done /\ vt.it < vt.end
              => vt.it < vt'.it /\ vt'.it <= vt.end]_vars
    /\ [](vt.it < vt.end =>
            LET t == vt_parse_next_token(vt.state, vt.S, vt.it, vt.end, vt.build)
                r == get_next_ui_input(vt.state, vt.S, vt.it, vt.end,
                                       vt.build, vt.oob)
            IN /\ vt.it < t.it /\ t.it <= vt.end
               /\ vt.it < r.it /\ r.it <= vt.end
               /\ r = get_next_ui_input(vt.state, vt.S, vt.it, r.it,
                                        vt.build, vt.oob))
    /\ <>[](vt.done /\ vt.it = Len(vt.S) /\ vt.end = Len(vt.S))

\* "a", Ctrl+G and Alt+a, read in two parts, have been drained.
DrainedThreeEvents ==
    /\ vt.S = <<97, 7, 27, 97>>
    /\ vt.cut < Len(vt.S)
    /\ vt.done /\ vt.it = Len(vt.S)


\* C22: for every SGR mouse report CSI < b ; x ; y M/m the event is MOUSE
\* at position (x-1, y-1); with bit 6 of b set the action is SCROLL with
\* scroll.y = +3 or -3, otherwise it is LEFT, MIDDLE or RIGHT by the low
\* two bits of b on final M and NONE on final m; the modifiers are SHIFT,
\* ALT and CTRL by bits 2, 3 and 4 of b.
SgrMouseDecoded ==
    \A pre \in MousePrefixes, b \in MouseButtons, x \in MouseCoords,
       y \in MouseCoords, final \in {77, 109} :
        (/\ vt.S = pre \o SgrMouse(b, x, y, final)
         /\ vt.it = Len(vt.S)
         /\ ~vt.done)
        => LET bit(k) == (b \div (2 ^ k)) % 2
               m == vt.input.mouse
           IN /\ vt.input.type = UI_INPUT_MOUSE
              /\ m.position = Point(x - 1, y - 1)
              /\ bit(6) = 1 => m.action = MOUSE_ACTION_SCROLL /\ m.scroll.y \in {3, -3}
              /\ bit(6) = 0 /\ final = 77 /\ b % 4 < 3
                    => m.action = <<MOUSE_ACTION_LEFT, MOUSE_ACTION_MIDDLE,
                                    MOUSE_ACTION_RIGHT>>[(b % 4) + 1]
              /\ bit(6) = 0 /\ final = 109 => m.action = MOUSE_ACTION_NONE
              /\ m.modifier = (IF bit(2) = 1 THEN KEYBOARD_MODIFIER_SHIFT ELSE 0)
                              + (IF bit(3) = 1 THEN KEYBOARD_MODIFIER_ALT ELSE 0)
                              + (IF bit(4) = 1 THEN KEYBOARD_MODIFIER_CTRL ELSE 0)


\* C29: when os_write_file reports an error during text_buffer_write_file,
\* the caller gets that platform error code and the buffer is not marked
\* clean.
WriteFailureReported ==
    (ghost.op = "write_file" /\ \E i \in 1..2 : ghost.arg.errors[i] # <<0, 0>>)
    => /\ ghost.arg.returned \in {ghost.arg.errors[1], ghost.arg.errors[2]} \ {<<0, 0>>}
       /\ tb.dirty = ghost.arg.pre.dirty

\* C30: text_buffer_read_file and text_buffer_write_file on a file that
\* cannot be opened leave the document, text_length, the gap, the cursor,
\* the statistics, the undo log and the dirty flag as they were.
OpenFailureIsNoOp ==
    [][((ghost'.op = "read_file" /\ ~ghost'.arg)
            \/ (ghost'.op = "write_file" /\ ~ghost'.arg.found))
          => /\ Doc(tb') = Doc(tb)
             /\ tb'.text_length = tb.text_length
             /\ tb'.gap_off = tb.gap_off /\ tb'.gap_len = tb.gap_len
             /\ tb'.cursor = tb.cursor /\ tb'.stats = tb.stats
             /\ tb'.undo = tb.undo /\ tb'.undo_tail = tb.undo_tail
             /\ tb'.dirty = tb.dirty]_vars


\* C23: on a MOUSE input with action LEFT at p, ui_root_reset sets
\* focused_item_id to the id of the deepest node of the previous frame's
\* trees whose inner_clipped contains p, a node of a later root (a floater)
\* before any node of an earlier one; when no node contains p, and for any
\* other input, focused_item_id is the one of the previous frame.
FocusIsDeepestHit ==
    ui.passes > 1 =>
        LET N == ui.prev.nodes
            pos == ui.input.mouse.position
            hit == {n \in 1..Len(N) : rect_contains(N[n].inner_clipped, pos)}
            roots == Siblings(N, ui.prev.root_first)
            RECURSIVE Path(_)
            \* the nodes from the root of its tree down to n
            Path(n) == IF n = ui.prev.root_first \/ N[n].attributes.floating
                       THEN <<n>> ELSE Path(N[n].parent) \o <<n>>
            Rank(n) == CHOOSE k \in 1..Len(roots) : roots[k] = Path(n)[1]
            Deepest(n) ==
                \A m \in hit :
                    \/ Rank(m) < Rank(n)
                    \/ Rank(m) = Rank(n) /\ Len(Path(m)) <= Len(Path(n))
        IN IF /\ ui.input.type = UI_INPUT_MOUSE
              /\ ui.input.mouse.action = MOUSE_ACTION_LEFT
              /\ hit # {}
           THEN \E n \in hit :
                    /\ Deepest(n)
                    /\ \A m \in hit : Deepest(m) => m = n
                    /\ ui.focus = N[n].id
           ELSE ui.focus = ui.prev.focused_item_id

\* The left button pressed on the Yes button of the exit dialog, which lies
\* over the text area: both contain the pointer, the button is focused.
FocusOnDialogButton ==
    /\ ui.passes > 1
    /\ ui.input = UiMouse(MOUSE_ACTION_LEFT, 1, 2, 0)
    /\ ui.focus = <<<<101, 120, 105, 116>>, <<98, 117, 116, 116, 111, 110, 115>>, <<89>>>>
    /\ ui.prev.focused_item_id # ui.focus
    /\ \E n \in 1..Len(ui.prev.nodes) :
           /\ ui.prev.nodes[n].id = <<<<>>, <<105, 110, 110, 101, 114>>>>
           /\ rect_contains(ui.prev.nodes[n].inner_clipped, Point(1, 2))

\* C24: a pass reports the mouse action RELEASE iff its input is a MOUSE
\* event with action NONE and the mouse action stored by the pass before
\* is LEFT, MIDDLE or RIGHT; ui_was_clicked is true only for the node that
\* holds the focus, it is true for that node in the pass of the release,
\* and it is not true in two passes in a row.
ReleaseIsOneClick ==
    ui.passes > 1 =>
        /\ ui.reported = MOUSE_ACTION_RELEASE
               <=> /\ ui.input.type = UI_INPUT_MOUSE
                   /\ ui.input.mouse.action = MOUSE_ACTION_NONE
                   /\ ui.prev.input_mouse_action \in
                          {MOUSE_ACTION_LEFT, MOUSE_ACTION_MIDDLE, MOUSE_ACTION_RIGHT}
        /\ \A k \in ui.host.clicked : k.id = k.focus
        /\ ui.reported = MOUSE_ACTION_RELEASE /\ ui.focus \in ui.host.asked
               => [id |-> ui.focus, focus |-> ui.focus] \in ui.host.clicked
        /\ ui.reported # MOUSE_ACTION_RELEASE => ui.host.clicked = {}
        /\ ui.host.clicked # {} => ui.clicked_before = {}

\* The button was pressed on the No button of the exit dialog, a pass
\* without an event followed, and the pass of the button-up event reports
\* the click on that button, which takes the dialog away.
ClickAfterIdlePass ==
    /\ ui.input = UiMouse(MOUSE_ACTION_NONE, 4, 2, 0)
    /\ ui.prev.input_consumed /\ ui.prev.input_mouse_action = MOUSE_ACTION_LEFT
    /\ ui.clicked_before = {}
    /\ ui.host.clicked
           = {[id |-> <<<<101, 120, 105, 116>>, <<98, 117, 116, 116, 111, 110, 115>>, <<78>>>>,
               focus |-> <<<<101, 120, 105, 116>>, <<98, 117, 116, 116, 111, 110, 115>>, <<78>>>>]}
    /\ ~ui.host.wants_exit

\* C25: after a frame is finalized the scroll offset of each of its scroll
\* areas is within [0, max(content - viewport, 0)] on both axes.
ScrollOffsetInRange ==
    ui.passes > 1 =>
        \A n \in 1..Len(ui.prev.nodes) :
            LET node == ui.prev.nodes[n]
                content == ui.prev.nodes[node.child_first].intrinsic_size
                offset == node.content.scrollarea
            IN node.content_type = UI_NODE_SCROLLAREA =>
                   /\ 0 <= offset.x
                   /\ offset.x <= max_i32(content.width
                                              - (node.inner.right - node.inner.left), 0)
                   /\ 0 <= offset.y
                   /\ offset.y <= max_i32(content.height
                                              - (node.inner.bottom - node.inner.top), 0)

\* C26: ui_consume_shortcut(code) returns true iff the input is not yet
\* consumed, the key is the low byte of code and the modifiers are its
\* modifier bits; after a call that returned true the input is consumed,
\* so at most one call of a pass returns true, and none does in a pass
\* whose input has no type.
ShortcutConsumedOnce ==
    LET s == ui.host.shortcuts
    IN /\ \A i \in 1..Len(s) :
              /\ s[i].ret <=> /\ ~s[i].consumed
                              /\ s[i].keyboard.key = s[i].code % 256
                              /\ s[i].keyboard.modifiers =
                                     s[i].code - (s[i].code % 16777216)
              /\ s[i].ret => /\ ui.ctx.input_consumed
                             /\ \A j \in (i + 1)..Len(s) : s[j].consumed
       /\ Cardinality({i \in 1..Len(s) : s[i].ret}) <= 1
       /\ ui.input.type = UI_INPUT_NONE => \A i \in 1..Len(s) : ~s[i].ret

\* Ctrl+S: the call for it returns true, and every call behind it finds
\* the input consumed and returns false.
CtrlSTakenOnce ==
    /\ ui.input = UiKey(83, KEYBOARD_MODIFIER_CTRL)
    /\ ui.host.shortcuts[1].ret /\ ~ui.host.shortcuts[1].consumed
    /\ Len(ui.host.shortcuts) > 1
    /\ \A i \in 2..Len(ui.host.shortcuts) :
           ui.host.shortcuts[i].consumed /\ ~ui.host.shortcuts[i].ret
    /\ ui.host.wants_save

\* C27: the output of ui_root_render is a function of the context it is
\* called on: whatever the memory of the call holds, the bytes are the
\* same.
RenderDeterministic ==
    ui.renders > 0 =>
        \A track_top \in {0, COORD_TYPE_MAX} :
            ui_root_render(ui.drawn, track_top).out = ui.out

\* The cells of the two last screens whose background differs, and the
\* number of background sequences in the last output.
BgChanged ==
    {p \in (1..ui.drawn.size.height) \X (1..ui.drawn.size.width) :
        ui.screen.bg_bitmap[p[1]][p[2]] # ui.screen_before.bg_bitmap[p[1]][p[2]]}

BgSequences == Cardinality({i \in 1..Len(ui.out) : ui.out[i].k = "bg"})

OneCellBgApart ==
    /\ ui.renders >= 2
    /\ ui.out # <<>>
    /\ ui.screen.lines = ui.screen_before.lines
    /\ ui.screen.fg_bitmap = ui.screen_before.fg_bitmap
    /\ ui.screen.cursor = ui.screen_before.cursor
    /\ Cardinality(BgChanged) = 1

\* C28 as stated: when the two last frames are the same but for the
\* background of one cell, the second output holds exactly one background
\* sequence behind the cursor-home sequence.
OneCellOneBgSequence ==
    OneCellBgApart => ui.out[1].k = "home" /\ BgSequences = 1

\* C28: every output of ui_root_render starts with the cursor-home sequence
\* and holds one background sequence for the first cell and one for each
\* cell whose background is not the one of the cell before it, rows taken
\* one after the other, whatever the frame before was.
BgSequencePerChange ==
    ui.renders > 0 /\ ui.out # <<>> =>
        LET w == ui.drawn.size.width
            h == ui.drawn.size.height
            Bg(i) == ui.screen.bg_bitmap[(i \div w) + 1][(i % w) + 1]
        IN /\ ui.out[1].k = "home"
           /\ \A i \in 2..Len(ui.out) : ui.out[i].k # "home"
           /\ BgSequences
                  = 1 + Cardinality({i \in 1..(w * h - 1) : Bg(i) # Bg(i - 1)})

\* The label in the middle of the first row got the focus between two
\* outputs: its cell changed its background, nothing else changed, and the
\* output holds three background sequences: one for the first cell, one
\* for the label and one for the cell behind it.
FocusedLabelRedrawn ==
    /\ OneCellBgApart
    /\ BgChanged = {<<1, 2>>}
    /\ BgSequences = 3

\* The ids of the exit dialog, of its two buttons and of the label of the
\* shortcut of File > Exit, which ui_menubar_menu_item asks about.
ExitDialogId == <<<<101, 120, 105, 116>>>>

ExitButtonId(letter) ==
    <<<<101, 120, 105, 116>>, <<98, 117, 116, 116, 111, 110, 115>>, <<letter>>>>

FileExitId ==
    <<<<109, 101, 110, 117, 98, 97, 114>>, <<70>>, <<102, 108, 121, 111, 117, 116>>,
      <<67, 116, 114, 108, 43, 81>>>>

HasNode(c, id) == \E n \in 1..Len(c.nodes) : c.nodes[n].id = id

WasClicked(host, id) == \E k \in host.clicked : k.id = id

SameSize(call) ==
    call.input.type = UI_INPUT_RESIZE /\ call.input.resize = call.size

\* C32 as stated: the frames built since the last read are those of the
\* events get_next_ui_input returned since then, one for each and in
\* their order, and ui_root_render has run once for each read that was
\* drained, behind the last of its frames.
FrameForEveryEvent ==
    ~ui.host.exit =>
        /\ ui.built = [i \in 1..Len(ui.calls) |-> ui.calls[i].input]
        /\ ui.renders = IF vt.done /\ ui.ctx.finalized THEN ui.reads ELSE ui.reads - 1

\* C32: the frames built since the last read are those of the events
\* get_next_ui_input returned since then, in their order, but for the
\* RESIZE events that report the size the context has, for which no frame
\* is built; the last of them is the frame of the event without a type
\* that the call on the drained input returns; ui_root_render has run
\* once for each read that was drained, behind that frame.
FrameForEveryKeptEvent ==
    LET Kept(call) == ~SameSize(call)
        kept == SelectSeq(ui.calls, Kept)
    IN ~ui.host.exit =>
           /\ ui.built = [i \in 1..Len(kept) |-> kept[i].input]
           /\ ui.renders = IF vt.done /\ ui.ctx.finalized THEN ui.reads
                            ELSE ui.reads - 1
           /\ vt.done => /\ vt.it = vt.end
                          /\ ui.built # <<>>
                          /\ ui.built[Len(ui.built)].type = UI_INPUT_NONE
                          /\ ui.input = ui.built[Len(ui.built)]

\* Both reads are drained and rendered; the second one held the report of
\* the size the window has, which built no frame, and a key, which did.
SecondReadRendered ==
    /\ ui.reads = 2 /\ ui.renders = 2
    /\ vt.done /\ ui.ctx.finalized /\ ~ui.host.exit
    /\ Len(ui.calls) = 3 /\ Len(ui.built) = 2
    /\ SameSize(ui.calls[1])
    /\ ui.built[1].type = UI_INPUT_TEXT

\* C33: the walk of a finalized frame comes to an end, and the node map
\* holds every node of the frame once.
WalkVisitsEachNodeOnce ==
    ui.passes = 2 =>
        /\ ~ui.prev.hang /\ ~ui.ctx.hang
        /\ ui.prev.finalized
        /\ Len(ui.prev.node_map) = Len(ui.prev.nodes)
        /\ \A n \in 1..Len(ui.prev.nodes) :
               \E k \in 1..Len(ui.prev.node_map) : ui.prev.node_map[k] = n

\* C34: csi.param_count is never above the number of slots of csi.params,
\* so that the reset at ESC [ (params[--param_count] = 0) and the parameter
\* store stay inside the array.
CsiParamCountInRange ==
    vt.state.csi.param_count <= ParamSlots

\* C35: every read of the two lookup tables of get_next_ui_input is inside
\* its table: the event a call returns is the same whatever the byte
\* outside the tables holds.
LutReadsInTable ==
    [][~vt.done /\ vt'.end = vt.end =>
           \A byte \in {0, VK_UP} :
               get_next_ui_input(vt.state, vt.S, vt.it, vt.end, vt.build, byte).result
                   = vt'.input]_vars

\* The points of rectangle a are points of rectangle b.
RectInside(a, b) ==
    \/ rect_is_empty(a)
    \/ /\ b.left <= a.left /\ a.right <= b.right
       /\ b.top <= a.top /\ a.bottom <= b.bottom

\* C36: in a finalized frame the outer_clipped of every node lies inside
\* its outer and the inner_clipped inside its inner.
ClippedInsideRects ==
    ui.prev.finalized =>
        \A n \in 1..Len(ui.prev.nodes) :
            /\ RectInside(ui.prev.nodes[n].outer_clipped, ui.prev.nodes[n].outer)
            /\ RectInside(ui.prev.nodes[n].inner_clipped, ui.prev.nodes[n].inner)

\* C37: after ui_attr_foreground_indexed(ctx, i) the fg of the node is the
\* palette entry i when i is in 0..15 and an entry of the palette for every
\* i; after ui_attr_background_indexed(ctx, i) the bg is the entry i & 15.
IndexedColoursFromPalette ==
    ui.attr # <<>> =>
        LET call == ui.attr[Len(ui.attr)]
            attributes == ui.ctx.nodes[ui.ctx.attr_node].attributes
        IN IF call[1] = "fg"
           THEN /\ call[2] <= 15 => attributes.fg = indexed_colors[call[2]]
                /\ \E k \in 0..15 : attributes.fg = indexed_colors[k]
           ELSE attributes.bg = indexed_colors[call[2] % 16]

\* C38: the table of a finalized frame has more slots than nodes and holds
\* every node once; get_prev_node(id) returns a node of the frame with
\* that id when the frame has one, and otherwise ends at a free slot and
\* returns no node.
LookupExact ==
    LET ids == ui.map.ids
        table == ui.map.table
    IN ui.map # <<>> =>
           /\ Len(ids) < table.mask + 1
           /\ \A n \in 1..Len(ids) :
                  Cardinality({slot \in 0..table.mask : table.slots[slot] = n}) = 1
           /\ ui.map.looked =>
                  IF \E n \in 1..Len(ids) : ids[n] = ui.map.id
                  THEN ui.map.found \in 1..Len(ids) /\ ids[ui.map.found] = ui.map.id
                  ELSE ui.map.found = NULL

\* Three nodes whose ids start at the last slot of the table: two of them
\* sit in slots 0 and 1, and the lookup of the third id finds its node
\* behind the wrap.
LookupWraps ==
    /\ ui.map # <<>> /\ ui.map.looked
    /\ Len(ui.map.ids) = 3
    /\ \A n \in 1..3 : ui.map.ids[n] >= (2 ^ IdBits) - 4
    /\ ui.map.ids[3] # ui.map.ids[1] /\ ui.map.ids[3] # ui.map.ids[2]
    /\ ui.map.id = ui.map.ids[3]
    /\ ui.map.found = 3
    /\ ui.map.table.slots[1] = 3

\* C39: the two arenas of the context differ and swap with every
\* ui_root_reset; the arena it resets is the one of the frame before the
\* previous frame, so while a frame is built its arena holds it and the
\* arena of the previous frame still holds the previous frame.
ArenasAlternate ==
    /\ ui.ctx.arena # ui.ctx.arena_prev
    /\ ui.passes > 0 =>
           /\ ui.prev.arena = ui.ctx.arena_prev
           /\ ui.prev.arena_prev = ui.ctx.arena
           /\ ui.arenas[ui.ctx.arena] = ui.passes
           /\ ui.arenas[ui.prev.arena] = ui.passes - 1

\* The third pass is a click: the hit test walks the nodes of the second
\* frame in arena 1 while the third frame is built in arena 2, the arena
\* the first frame was in.
ArenaReusedOnClick ==
    /\ ui.passes = 3
    /\ ui.input.type = UI_INPUT_MOUSE
    /\ ui.input.mouse.action = MOUSE_ACTION_LEFT
    /\ ui.focus # <<>>
    /\ ui.ctx.arena = 2 /\ ui.prev.arena = 1
    /\ ui.arenas = <<2, 3>>

\* C40: ui_container_begin(id) moves the focus to id when autofocus_next
\* is set and the focus is on the parent, and leaves it alone otherwise;
\* after ui_container_begin and after ui_container_end autofocus_next is
\* clear, so a request reaches at most the next ui_container_begin;
\* ui_container_end, ui_focus_next_by_default and the attribute setters
\* leave the focus alone.
FocusMovesOnlyByAutofocus ==
    [][/\ ui'.call = "ui_container_begin" =>
              /\ ui'.ctx.focused_item_id =
                     IF /\ ui.ctx.autofocus_next
                        /\ ui.ctx.focused_item_id = ui.ctx.nodes[ui.ctx.parent].id
                     THEN ui'.ctx.nodes[ui'.ctx.parent].id
                     ELSE ui.ctx.focused_item_id
              /\ ~ui'.ctx.autofocus_next
       /\ ui'.call = "ui_container_end" =>
              /\ ui'.ctx.focused_item_id = ui.ctx.focused_item_id
              /\ ~ui'.ctx.autofocus_next
       /\ ui'.call \in {"ui_attr", "ui_focus_next_by_default"} =>
              ui'.ctx.focused_item_id = ui.ctx.focused_item_id]_vars

\* The focus has moved from the root to a container and from there to a
\* container begun inside it with another id, each time on a request.
FocusMovedTwice ==
    /\ ui.call = "ui_container_begin"
    /\ ui.ctx.node_count = 3
    /\ ui.ctx.nodes[3].parent = 2
    /\ ui.ctx.nodes[2].id # <<>> /\ ui.ctx.nodes[3].id # ui.ctx.nodes[2].id
    /\ ui.ctx.focused_item_id = ui.ctx.nodes[3].id
    /\ ~ui.ctx.autofocus_next
=============================================================================
